---- MODULE Spec2Model ----
(***************************************************************************)
(* Container lifecycle manager and request router of iserv-remote-desktop. *)
(*                                                                         *)
(* The Registry is the `containers` table (app/models/containers.py), the  *)
(* engine is the Docker daemon reached through docker-py, and every        *)
(* DockerManager method (app/services/docker_manager.py) is a sequence of  *)
(* steps, one per database commit or engine call, so that concurrent       *)
(* requests interleave exactly where the code lets them.                   *)
(*                                                                         *)
(* Row locks taken by `with_for_update()` in _find_available_port are not  *)
(* modelled: they cover only rows that are already running, reserve no     *)
(* port, and only delay writers of those rows, so leaving them out adds    *)
(* no reachable Registry state that matters to the traces reported here    *)
(* (none of them writes a running row between a scan and its commit).      *)
(***************************************************************************)
EXTENDS Integers, Sequences, FiniteSets, TLC

\* SQL NULL / Python None of the nullable columns container_id and host_port.
NULL == 0

(* ------------------------------ bounds -------------------------------- *)

\* Row ids (uuids in the code) that may be alive at the same time.
MaxRows == 2
\* Number of ports of the modelled range (the code's default range has 1000).
PortRangeSize == 2

(* --------------------------- program constants ------------------------ *)

start_port == 7000
end_port == start_port + PortRangeSize

Procs == {"p1", "p2"}

\* OAuth sessions (uuid strings) and the user each belongs to.
Sessions == {"aaaaaaaa-0001", "bbbbbbbb-0002", "cccccccc-0003"}
\* Sessions of further users, for the runs that need more containers
\* than the port range has ports.
FurtherSessions == <<"dddddddd-0004", "eeeeeeee-0005">>
FurtherUsers == "dddddddd-0004" :> "uid-carol" @@ "eeeeeeee-0005" :> "uid-dave"
SessionUser ==
    [s \in Sessions |-> IF s = "cccccccc-0003" THEN "uid-bob" ELSE "uid-alice"] @@ FurtherUsers
Username ==
    [u \in {"uid-alice", "uid-bob"} |-> IF u = "uid-alice" THEN "alice" ELSE "bob"]
        @@ ("uid-carol" :> "carol" @@ "uid-dave" :> "dave")
DesktopTypes == {"ubuntu-vscode"}

RowIds == 1..MaxRows
Ports == start_port..(end_port - 1)

(* ----------------------------- state ---------------------------------- *)

VARIABLES
    registry,   \* set of Container rows
    engine,     \* set of engine instances
    pc,         \* per request: the step it is at
    loc,        \* per request: its local variables (ORM objects are snapshots)
    last,       \* the call that returned or raised in the last step, if any
    hint,       \* per client: session['current_container'], "" when unset
    fwd,        \* the proxied request being forwarded to a backend, if any
    routed,     \* the answer a proxy handler gave in the last step, if any
    tunnel,     \* the WebSocket session being relayed, its sockets and its peers
    sweep,      \* the clock, the rows' last_accessed and the idle sweep under way
    reply       \* the last response of the provisioning and lookup API

lifeVars == <<registry, engine, pc, loc, last>>
routeVars == <<hint, fwd, routed>>
sideVars == <<tunnel, sweep, reply>>
vars == <<registry, engine, pc, loc, last, hint, fwd, routed, tunnel, sweep, reply>>

(* --------------------------- naming ----------------------------------- *)

\* docker_manager.py:55  f"kasm-{username}-{desktop_type}-{session_id[:8]}"
ContainerName(username, desktop_type, session_id) ==
    "kasm-" \o username \o "-" \o desktop_type \o "-" \o SubSeq(session_id, 1, 8)

\* docker_manager.py:58  f"{username}-{desktop_type}"
ProxyPath(username, desktop_type) == username \o "-" \o desktop_type

(* --------------------------- registry --------------------------------- *)

RowById(id) == CHOOSE r \in registry : r.id = id
HasRow(id) == \E r \in registry : r.id = id

\* Python None of the nullable column stopped_at (containers.py:31); the
\* hours of the clock count from 0.
NoTime == -1

\* datetime.now(timezone.utc), in hours.
Now == sweep.now

\* status = 'stopped', and with it stopped_at = now where the code writes
\* the timestamp (docker_manager.py:205-206, 276-277) or nothing more
\* (lines 217, 288).
Stopped(row, stamp) ==
    [row EXCEPT !.status = "stopped", !.stopped_at = IF stamp THEN Now ELSE @]

\* Container(...) built at docker_manager.py:108-117; container_id,
\* host_port and stopped_at are nullable and unset.
NewRow(id, session_id, desktop_type) ==
    [id |-> id,
     user_id |-> SessionUser[session_id],
     session_id |-> session_id,
     desktop_type |-> desktop_type,
     container_name |-> ContainerName(Username[SessionUser[session_id]], desktop_type, session_id),
     proxy_path |-> ProxyPath(Username[SessionUser[session_id]], desktop_type),
     status |-> "creating",
     container_id |-> NULL,
     host_port |-> NULL,
     stopped_at |-> NoTime]

\* UPDATE of one row by primary key; no row matched is SQLAlchemy's
\* StaleDataError, which the callers handle.
UpdateRow(id, new) == {IF r.id = id THEN new ELSE r : r \in registry}
DeleteRow(id) == {r \in registry : r.id # id}

\* The model reuses the id of a row once nothing refers to it any more,
\* which keeps the uuids of the code fresh in every state.
\* Ids referenced by a row, an engine instance or a request in flight.
Referenced ==
    {r.id : r \in registry} \cup {i.id : i \in engine}
        \cup {loc[p].row : p \in {q \in Procs : "row" \in DOMAIN loc[q]}}
        \cup (IF fwd.handler = "none" THEN {} ELSE {fwd.target})
IdAvailableIn(Ids) == \E i \in Ids : i \notin Referenced
FreshIdIn(Ids) == CHOOSE i \in Ids :
    i \notin Referenced /\ \A j \in Ids : j < i => j \in Referenced
IdAvailable == IdAvailableIn(RowIds)
FreshId == FreshIdIn(RowIds)

(* ----------------------------- engine --------------------------------- *)

\* An instance is [id, name, host_port, state], state one of created,
\* running, exited (docker's container.status).
HasInstance(cid) == \E i \in engine : i.id = cid
InstanceById(cid) == CHOOSE i \in engine : i.id = cid
SetInstanceState(cid, st) ==
    {IF i.id = cid THEN [i EXCEPT !.state = st] ELSE i : i \in engine}
RemoveInstance(cid) == {i \in engine : i.id # cid}
PortBound(port) == \E i \in engine : i.state = "running" /\ i.host_port = port
NameInUse(name) == \E i \in engine : i.name = name

\* client.containers.run(image, name=..., ports=..., detach=True,
\* remove=False): docker-py creates the instance and then starts it.
\*   "conflict"  the name is in use: creation is refused, nothing is left;
\*   "refused"   the engine refuses the creation (image, resources);
\*   "created"   created, but the start fails because the host port is
\*               bound: the instance stays behind, never started;
\*   "running"   created and started.
RunOutcomes(name, port) ==
    IF NameInUse(name) THEN {"conflict"}
    ELSE IF PortBound(port) THEN {"created", "refused"}
    ELSE {"running", "refused"}

EngineAfterRun(id, name, port, outcome) ==
    IF outcome \in {"created", "running"}
    THEN engine \cup {[id |-> id, name |-> name, host_port |-> port, state |-> outcome]}
    ELSE engine

(* ------------------------- request bookkeeping ------------------------ *)

Idle == [op |-> "none"]
NoCall == [op |-> "none"]
NoForward == [handler |-> "none"]
NoAnswer == [handler |-> "none"]

\* The call of request p returns or raises: `last` holds what it was and
\* how it ended for the one state that follows.
Finish(p, op, row, outcome) ==
    /\ pc' = [pc EXCEPT ![p] = "idle"]
    /\ loc' = [loc EXCEPT ![p] = Idle]
    /\ last' = [op |-> op, row |-> row, outcome |-> outcome]
    /\ routed' = NoAnswer
    /\ UNCHANGED <<hint, fwd>>
    /\ UNCHANGED sideVars

Goto(p, label, locals) ==
    /\ pc' = [pc EXCEPT ![p] = label]
    /\ loc' = [loc EXCEPT ![p] = locals]
    /\ last' = NoCall
    /\ routed' = NoAnswer
    /\ UNCHANGED <<hint, fwd>>
    /\ UNCHANGED sideVars

(* ---------------------- DockerManager.create_container ---------------- *)

\* Container.query.filter_by(session_id, user_id, desktop_type).first()
ExistingRows(session_id, desktop_type) ==
    {r \in registry : /\ r.session_id = session_id
                      /\ r.user_id = SessionUser[session_id]
                      /\ r.desktop_type = desktop_type}

\* Sensitivity variant of ReturnsExisting: a running row is treated as stale.
ReturnsExistingNever(existing) == FALSE

\* Line 70: if existing.status == 'running': return existing
ReturnsExisting(existing) == existing.status = "running"

\* Lines 60-105, the lookup: a running row is returned as it is; a row in
\* error, stopped or creating is cleaned up first; no row goes on to insert.
CreateLookup(p, session_id, desktop_type) ==
    /\ pc[p] = "idle"
    /\ UNCHANGED <<registry, engine>>
    /\ LET found == ExistingRows(session_id, desktop_type)
           args == [op |-> "create", session_id |-> session_id, desktop_type |-> desktop_type]
       IN IF found = {}
          THEN Goto(p, "c_insert", args)
          ELSE \E existing \in found :
                 IF ReturnsExisting(existing)
                 THEN Finish(p, "create", existing.id, "existing")
                 ELSE IF existing.container_id # NULL
                 THEN Goto(p, "c_cleanup_engine",
                           args @@ [row |-> existing.id, container_id |-> existing.container_id])
                 ELSE Goto(p, "c_cleanup_delete", args @@ [row |-> existing.id])

\* Sensitivity variant of AfterFailedCleanup: the row is deleted although
\* the engine kept the instance.
AfterFailedCleanupDeletes(id) == DeleteRow(id)

\* Lines 89-96 and 176-186: the removal raised; docker_removed stays
\* False, the exception leaves create_container with container_record
\* still None, so the handler only rolls back.
AfterFailedCleanup(id) == registry

\* Lines 81-96: containers.get(existing.container_id).remove(force=True).
\* NotFound counts as removed; any other failure aborts the creation with
\* the row left in place (container_record is still None: rollback, raise).
CreateCleanupEngine(p) ==
    /\ pc[p] = "c_cleanup_engine"
    /\ LET cid == loc[p].container_id
       IN IF ~HasInstance(cid)
          THEN /\ UNCHANGED <<engine, registry>>
               /\ Goto(p, "c_cleanup_delete", loc[p])
          ELSE \/ /\ engine' = RemoveInstance(cid)
                  /\ UNCHANGED registry
                  /\ Goto(p, "c_cleanup_delete", loc[p])
               \/ /\ UNCHANGED engine
                  /\ registry' = AfterFailedCleanup(loc[p].row)
                  /\ Finish(p, "create", loc[p].row, "cleanup_failed")

\* Lines 102-105: db.session.delete(existing); commit.  A row that is
\* already gone only draws a warning.
CreateCleanupDelete(p) ==
    /\ pc[p] = "c_cleanup_delete"
    /\ registry' = DeleteRow(loc[p].row)
    /\ UNCHANGED engine
    /\ Goto(p, "c_insert",
            [op |-> "create", session_id |-> loc[p].session_id,
             desktop_type |-> loc[p].desktop_type])

(* The table's unique constraints.  container_name is unique in            *)
(* app/models/containers.py:18; proxy_path is unique in the deployed       *)
(* schema (constraint containers_proxy_path_key, named by                  *)
(* scripts/test_duplicate_cleanup.py).                                     *)
NameConflicts(row) == {r \in registry : r.container_name = row.container_name}
PathConflicts(row) == {r \in registry : r.proxy_path = row.proxy_path}
\* Sensitivity variant of InsertConflicts: a table without unique constraints.
InsertConflictsNone(row) == {}
InsertConflicts(row) == NameConflicts(row) \cup PathConflicts(row)

\* Lines 107-119: the row is inserted as `creating` before any engine
\* call.  A unique violation raises at the commit; the handler's own
\* commit then fails too (the session awaits rollback) and nothing is
\* stored.
CreateInsertIn(p, Ids) ==
    /\ pc[p] = "c_insert"
    /\ IdAvailableIn(Ids)
    /\ UNCHANGED engine
    /\ LET row == NewRow(FreshIdIn(Ids), loc[p].session_id, loc[p].desktop_type)
       IN IF InsertConflicts(row) # {}
          THEN /\ UNCHANGED registry
               /\ Finish(p, "create", NULL, "unique_violation")
          ELSE /\ registry' = registry \cup {row}
               /\ Goto(p, "c_alloc", loc[p] @@ [row |-> row.id])

CreateInsert(p) == CreateInsertIn(p, RowIds)

\* _find_available_port, lines 332-339: the ports of the rows that are
\* running and have a port.
UsedPorts == {r.host_port : r \in {x \in registry : x.status = "running" /\ x.host_port # NULL}}

\* Sensitivity variant of FreePorts: a full range falls back to its first
\* port.
FreePortsOrFirst ==
    IF \A port \in Ports : port \in UsedPorts
    THEN {start_port}
    ELSE {port \in Ports : port \notin UsedPorts}

\* Lines 341-347: the lowest port of the range that is not used.
FreePorts == {port \in Ports : port \notin UsedPorts}
LowestFreePort == CHOOSE port \in FreePorts : \A q \in FreePorts : port <= q

\* Sensitivity variant of MarkError: the handlers leave the row as it is.
MarkErrorNever(id) == registry

\* The except handlers of create_container, lines 161-186: the row, if
\* it still exists, is marked error.
MarkError(id) ==
    IF HasRow(id) THEN UpdateRow(id, [RowById(id) EXCEPT !.status = "error"]) ELSE registry

\* Line 122: host_port = self._find_available_port(); nothing is written.
\* An exhausted range raises and the handler marks the row.
CreateAllocate(p) ==
    /\ pc[p] = "c_alloc"
    /\ UNCHANGED engine
    /\ IF FreePorts = {}
       THEN /\ registry' = MarkError(loc[p].row)
            /\ Finish(p, "create", loc[p].row, "exhausted")
       ELSE /\ UNCHANGED registry
            /\ Goto(p, "c_run", loc[p] @@ [host_port |-> LowestFreePort])

\* Lines 133-146: the engine call.
CreateRun(p) ==
    /\ pc[p] = "c_run"
    /\ UNCHANGED registry
    /\ LET row == NewRow(loc[p].row, loc[p].session_id, loc[p].desktop_type)
       IN \E outcome \in RunOutcomes(row.container_name, loc[p].host_port) :
            /\ engine' = EngineAfterRun(loc[p].row, row.container_name, loc[p].host_port, outcome)
            /\ IF outcome = "running"
               THEN Goto(p, "c_commit", loc[p])
               ELSE Goto(p, "c_failed", loc[p])

\* Lines 149-153: container_id, host_port and status are written in one
\* commit.  If the row was deleted meanwhile the UPDATE matches nothing,
\* and so does the handler's.
CreateCommit(p) ==
    /\ pc[p] = "c_commit"
    /\ UNCHANGED engine
    /\ IF HasRow(loc[p].row)
       THEN /\ registry' = UpdateRow(loc[p].row,
                              [RowById(loc[p].row) EXCEPT !.container_id = loc[p].row,
                                                          !.host_port = loc[p].host_port,
                                                          !.status = "running"])
            /\ Finish(p, "create", loc[p].row, "created")
       ELSE /\ UNCHANGED registry
            /\ Finish(p, "create", loc[p].row, "stale")

\* Lines 161-173: the engine call raised.
CreateFailed(p) ==
    /\ pc[p] = "c_failed"
    /\ UNCHANGED engine
    /\ registry' = MarkError(loc[p].row)
    /\ Finish(p, "create", loc[p].row, "engine_failed")

(* ----------------------- DockerManager.stop_container ------------------ *)

\* Sensitivity variant of StopsNothing: a row without an engine id is
\* stopped like any other (the engine answers NotFound).
StopsNothingNever(rec) == FALSE

\* Lines 196-200: if not container_record.container_id: return
StopsNothing(rec) == rec.container_id = NULL

\* Lines 205-207 (the engine stopped the instance) write status and
\* stopped_at and commit, also for a row loaded as stopped; lines 217-218
\* (NotFound) write the status only, which for a row loaded as stopped is
\* no change and no UPDATE: the call is over after the engine step.
StopWritten(p, id, rec, found) ==
    IF ~found /\ rec.status = "stopped"
    THEN Finish(p, "stop", id, "stopped")
    ELSE Goto(p, "s_commit", [op |-> "stop", row |-> id, stamp |-> found])

\* Lines 196-203 and 213, 219-222: no container id returns at once; else
\* the engine is asked to stop the instance.  NotFound is handled as
\* stopped; any other engine failure rolls back and raises.
StopEngine(p, id) ==
    /\ pc[p] = "idle"
    /\ HasRow(id)
    /\ UNCHANGED registry
    /\ LET rec == RowById(id)
       IN IF StopsNothing(rec)
          THEN /\ UNCHANGED engine
               /\ Finish(p, "stop", id, "no_container_id")
          ELSE IF ~HasInstance(rec.container_id)
          THEN /\ UNCHANGED engine
               /\ StopWritten(p, id, rec, FALSE)
          ELSE \/ /\ engine' = IF InstanceById(rec.container_id).state = "running"
                               THEN SetInstanceState(rec.container_id, "exited")
                               ELSE engine
                  /\ StopWritten(p, id, rec, TRUE)
               \/ /\ UNCHANGED engine
                  /\ Finish(p, "stop", id, "engine_failed")

\* Lines 205-207 and 217-218: status = 'stopped', stopped_at = now unless
\* the engine answered NotFound; commit.  host_port and container_id are
\* left as they are.
StopCommit(p) ==
    /\ pc[p] = "s_commit"
    /\ UNCHANGED engine
    /\ IF HasRow(loc[p].row)
       THEN /\ registry' = UpdateRow(loc[p].row, Stopped(RowById(loc[p].row), loc[p].stamp))
            /\ Finish(p, "stop", loc[p].row, "stopped")
       ELSE /\ UNCHANGED registry
            /\ Finish(p, "stop", loc[p].row, "stale")

(* ---------------------- DockerManager.remove_container ---------------- *)

\* Lines 232-242 and 248-251: with a container id the engine instance is
\* removed first (NotFound passes, any other failure rolls back and
\* raises); without one the row is deleted straight away (lines 245-246).
RemoveEngine(p, id) ==
    /\ pc[p] = "idle"
    /\ HasRow(id)
    /\ LET rec == RowById(id)
       IN IF rec.container_id = NULL
          THEN /\ UNCHANGED engine
               /\ registry' = DeleteRow(id)
               /\ Finish(p, "remove", id, "removed")
          ELSE IF ~HasInstance(rec.container_id)
          THEN /\ UNCHANGED <<engine, registry>>
               /\ Goto(p, "r_delete", [op |-> "remove", row |-> id])
          ELSE \/ /\ engine' = RemoveInstance(rec.container_id)
                  /\ UNCHANGED registry
                  /\ Goto(p, "r_delete", [op |-> "remove", row |-> id])
               \/ /\ UNCHANGED <<engine, registry>>
                  /\ Finish(p, "remove", id, "engine_failed")

\* Lines 245-246: db.session.delete(container_record); commit.
RemoveDelete(p) ==
    /\ pc[p] = "r_delete"
    /\ UNCHANGED engine
    /\ registry' = DeleteRow(loc[p].row)
    /\ Finish(p, "remove", loc[p].row, "removed")

(* -------------------- DockerManager.get_container_status -------------- *)

\* Lines 270-278 and 287-289: the status the row is given, from the
\* engine's answer and the status of the row as it was loaded.
ReconciledStatus(docker_status, status) ==
    IF docker_status = "not_found" THEN "stopped"
    ELSE IF docker_status = "running" /\ status # "running" THEN "running"
    ELSE IF docker_status \in {"exited", "dead"} /\ status # "stopped" THEN "stopped"
    ELSE status

\* Lines 264-268: no container id returns the stored status; else the
\* engine is inspected and a status that differs from the loaded one is
\* committed.  An engine failure (lines 291-294) changes nothing.
ReconcileInspect(p, id) ==
    /\ pc[p] = "idle"
    /\ HasRow(id)
    /\ UNCHANGED <<registry, engine>>
    /\ LET rec == RowById(id)
           docker_status == IF HasInstance(rec.container_id)
                            THEN InstanceById(rec.container_id).state
                            ELSE "not_found"
       IN IF rec.container_id = NULL
          THEN Finish(p, "reconcile", id, "unknown")
          ELSE \/ IF ReconciledStatus(docker_status, rec.status) # rec.status
                  THEN Goto(p, "g_commit", [op |-> "reconcile", row |-> id,
                                            status |-> ReconciledStatus(docker_status, rec.status),
                                            stamp |-> docker_status \in {"exited", "dead"}])
                  ELSE Finish(p, "reconcile", id, rec.status)
               \/ Finish(p, "reconcile", id, "inspect_failed")

\* Lines 272-274, 276-278, 288-289: the new status is committed, with
\* stopped_at = now when the engine reported exited or dead (line 277).
ReconcileCommit(p) ==
    /\ pc[p] = "g_commit"
    /\ UNCHANGED engine
    /\ IF HasRow(loc[p].row)
       THEN /\ registry' = UpdateRow(loc[p].row,
                              [RowById(loc[p].row) EXCEPT
                                 !.status = loc[p].status,
                                 !.stopped_at = IF loc[p].stamp THEN Now ELSE @])
            /\ Finish(p, "reconcile", loc[p].row, loc[p].status)
       ELSE /\ UNCHANGED registry
            /\ Finish(p, "reconcile", loc[p].row, "stale")

(* ----------------------- calls that do not complete ------------------- *)

\* The process serving request p ends in the middle of a call (the worker
\* is killed or restarted): no handler runs, what was committed stays.
Crash(p) ==
    /\ pc[p] # "idle"
    /\ UNCHANGED <<registry, engine>>
    /\ Goto(p, "idle", Idle)

\* docker_manager.py:207, 218 with 219-222: the commit of a Stop raises
\* (the database does not answer); rollback, raise.  The engine call is
\* not undone.
StopCommitFails(p) ==
    /\ pc[p] = "s_commit"
    /\ UNCHANGED <<registry, engine>>
    /\ Finish(p, "stop", loc[p].row, "commit_failed")

\* docker_manager.py:245-246 with 248-251: the commit of the delete
\* raises; rollback, raise.  The instance is gone from the engine.
RemoveDeleteFails(p) ==
    /\ pc[p] = "r_delete"
    /\ UNCHANGED <<registry, engine>>
    /\ Finish(p, "remove", loc[p].row, "commit_failed")

(* --------------------------- the engine's own moves ------------------- *)

\* The desktop process of a running instance ends: docker reports exited.
EngineExit(cid) ==
    /\ HasInstance(cid)
    /\ InstanceById(cid).state = "running"
    /\ engine' = SetInstanceState(cid, "exited")
    /\ last' = NoCall
    /\ routed' = NoAnswer
    /\ UNCHANGED <<registry, pc, loc, hint, fwd>>
    /\ UNCHANGED sideVars

\* An exited instance is started again outside the manager (docker start);
\* get_container_status lines 271-274 exist for this case.  The engine
\* refuses while the instance's host port is bound.
EngineStart(cid) ==
    /\ HasInstance(cid)
    /\ InstanceById(cid).state = "exited"
    /\ ~PortBound(InstanceById(cid).host_port)
    /\ engine' = SetInstanceState(cid, "running")
    /\ last' = NoCall
    /\ routed' = NoAnswer
    /\ UNCHANGED <<registry, pc, loc, hint, fwd>>
    /\ UNCHANGED sideVars

(* ------------------------------ routing ------------------------------- *)

Clients == {"c1"}

\* app/routes/proxy_routes.py:40 and :43
ASSET_PREFIXES ==
    {"assets", "js", "css", "fonts", "images", "static", "dist", "build", "locale", "app"}
ASSET_EXTENSIONS ==
    {".json", ".css", ".js", ".svg", ".png", ".jpg", ".jpeg", ".gif", ".woff", ".woff2",
     ".ttf", ".eot", ".ico", ".oga", ".mp3", ".wav"}

CharAt(s, i) == SubSeq(s, i, i)
SetMin(S) == CHOOSE m \in S : \A n \in S : m <= n

\* path.split('/')[0]
FirstComponent(path) ==
    LET slashes == {i \in 1..Len(path) : CharAt(path, i) = "/"}
    IN IF slashes = {} THEN path ELSE SubSeq(path, 1, SetMin(slashes) - 1)

\* str.endswith
EndsWith(s, suffix) ==
    Len(s) >= Len(suffix) /\ SubSeq(s, Len(s) - Len(suffix) + 1, Len(s)) = suffix

\* proxy_routes.py:46-74
is_asset_path(path) ==
    LET first_component == FirstComponent(path)
    IN \/ first_component \in ASSET_PREFIXES
       \/ \E ext \in ASSET_EXTENSIONS : EndsWith(first_component, ext)

\* re.search(r'/desktop/([^/?#]+)', referer).group(1), "" for no match.
SegmentStops == {"/", "?", "#"}
MatchStarts(referer) ==
    {i \in 1..Len(referer) :
        /\ i + 9 <= Len(referer)
        /\ SubSeq(referer, i, i + 8) = "/desktop/"
        /\ CharAt(referer, i + 9) \notin SegmentStops}
RefererSegment(referer) ==
    LET starts == MatchStarts(referer)
    IN IF starts = {} THEN ""
       ELSE LET b == SetMin(starts) + 9
                ends == {j \in b..Len(referer) : CharAt(referer, j) \in SegmentStops}
            IN SubSeq(referer, b, IF ends = {} THEN Len(referer) ELSE SetMin(ends) - 1)

\* The address segments and Referer headers of the modelled requests.
RequestPaths == {"alice-ubuntu-vscode", "bob-ubuntu-vscode", "assets/app.js", "font.woff2"}
Referers ==
    {"", "https://d.io/",
     "https://d.io/desktop/alice-ubuntu-vscode",
     "https://d.io/desktop/assets/app.css"}

\* The Referer match and is_asset_path on those requests, evaluated once.
SegmentOf == [referer \in Referers |-> RefererSegment(referer)]
AssetLike ==
    [path \in RequestPaths \cup {SegmentOf[referer] : referer \in Referers}
        |-> is_asset_path(path)]

\* Container.get_by_proxy_path: the rows with this proxy_path that are
\* running (the handler takes the first).
GetByProxyPath(proxy_path) ==
    {r \in registry : r.proxy_path = proxy_path /\ r.status = "running"}

\* Sensitivity variant of ResolveDesktop: no session tier.
ResolveDesktopNoSession(proxy_path, referer, current_container) ==
    LET direct == GetByProxyPath(proxy_path)
        seg == SegmentOf[referer]
        byReferer == IF seg # "" /\ ~AssetLike[seg] THEN GetByProxyPath(seg) ELSE {}
    IN IF direct # {} THEN [via |-> "path", found |-> direct]
       ELSE IF ~AssetLike[proxy_path] THEN [via |-> "none", found |-> {}]
       ELSE IF byReferer # {} THEN [via |-> "referer", found |-> byReferer]
       ELSE [via |-> "none", found |-> {}]

\* Sensitivity variant of ResolveDesktop: the session tier also serves
\* requests that are not asset-like.
ResolveDesktopAnySession(proxy_path, referer, current_container) ==
    LET direct == GetByProxyPath(proxy_path)
        seg == SegmentOf[referer]
        byReferer == IF seg # "" /\ ~AssetLike[seg] THEN GetByProxyPath(seg) ELSE {}
        bySession == IF current_container # "" THEN GetByProxyPath(current_container) ELSE {}
    IN IF direct # {} THEN [via |-> "path", found |-> direct]
       ELSE IF AssetLike[proxy_path] /\ byReferer # {} THEN [via |-> "referer", found |-> byReferer]
       ELSE IF bySession # {} THEN [via |-> "session", found |-> bySession]
       ELSE [via |-> "none", found |-> {}]

\* proxy_to_container, lines 117-159: the rows the request may resolve to
\* and the tier that found them. A direct match wins; only an asset-like
\* request without one falls back to the Referer's segment (unless that is
\* asset-like too) and then to the session's current_container.
ResolveDesktop(proxy_path, referer, current_container) ==
    LET direct == GetByProxyPath(proxy_path)
        seg == SegmentOf[referer]
        byReferer == IF seg # "" /\ ~AssetLike[seg] THEN GetByProxyPath(seg) ELSE {}
        bySession == IF current_container # "" THEN GetByProxyPath(current_container) ELSE {}
    IN IF direct # {} THEN [via |-> "path", found |-> direct]
       ELSE IF ~AssetLike[proxy_path] THEN [via |-> "none", found |-> {}]
       ELSE IF byReferer # {} THEN [via |-> "referer", found |-> byReferer]
       ELSE IF bySession # {} THEN [via |-> "session", found |-> bySession]
       ELSE [via |-> "none", found |-> {}]

\* The backend of one forwarded request, as the retrying session sees it:
\* the first `fails` connections end the way `how` says (the peer resets
\* the connection, the connect or the read times out, or the answer is a
\* status of DEFAULT_STATUS_FORCELIST), the one after them ends as `then`
\* says (an answer, or an error no retry is made for).
NoBackend == [fails |-> 0, how |-> "none", then |-> "none"]

\* What a handler did with a request: the tier that resolved it, the row
\* it resolved to, the status answered (0 while the request is on its way
\* to the backend), the backend connections attempted, what the backend
\* did, what the status check after a connection error found and which of
\* the two 503 texts was sent.
Answer(handler, client, asset, via, status, target, attempts) ==
    [handler |-> handler, client |-> client, asset |-> asset, via |-> via,
     status |-> status, target |-> target, attempts |-> attempts,
     backend |-> NoBackend, probe |-> "none", message |-> ""]

\* Sensitivity variant of StoredHint: the session is never written.
StoredHintNever(client, is_potential_asset, container) == hint

\* Sensitivity variant of StoredHint: every resolved request is stored.
StoredHintAlways(client, is_potential_asset, container) ==
    [hint EXCEPT ![client] = container.proxy_path]

\* Lines 169-173: only a non-asset request stores the container's
\* proxy_path in the session.
StoredHint(client, is_potential_asset, container) ==
    IF is_potential_asset THEN hint
    ELSE [hint EXCEPT ![client] = container.proxy_path]

\* proxy_to_container, lines 114-177: 404 when nothing resolves, 500 when
\* the row has no port; else a non-asset request stores the container in
\* the session and the request goes on to the backend.
ProxyToContainer(client, proxy_path, referer) ==
    /\ fwd = NoForward
    /\ last' = NoCall
    /\ UNCHANGED <<registry, engine, pc, loc>>
    /\ UNCHANGED sideVars
    /\ LET is_potential_asset == AssetLike[proxy_path]
           res == ResolveDesktop(proxy_path, referer, hint[client])
       IN IF res.found = {}
          THEN /\ routed' = Answer("desktop", client, is_potential_asset, "none", 404, NULL, 0)
               /\ UNCHANGED <<hint, fwd>>
          ELSE \E container \in res.found :
                 IF container.host_port = NULL
                 THEN /\ routed' = Answer("desktop", client, is_potential_asset, res.via,
                                          500, container.id, 0)
                      /\ UNCHANGED <<hint, fwd>>
                 ELSE /\ hint' = StoredHint(client, is_potential_asset, container)
                      /\ routed' = Answer("desktop", client, is_potential_asset, res.via,
                                          0, container.id, 0)
                      /\ fwd' = [handler |-> "desktop", client |-> client,
                                 target |-> container.id, attempts |-> 0]

\* backend/app/routes/container_proxy_routes.py:39-47: the running row of
\* that proxy_path, or a redirect to the main domain.
ContainerProxy(client, proxy_path) ==
    /\ fwd = NoForward
    /\ last' = NoCall
    /\ UNCHANGED <<registry, engine, pc, loc, hint>>
    /\ UNCHANGED sideVars
    /\ LET found == GetByProxyPath(proxy_path)
       IN IF found = {}
          THEN /\ routed' = Answer("container_proxy", client, FALSE, "none", 302, NULL, 0)
               /\ UNCHANGED fwd
          ELSE \E container \in found :
                 IF container.host_port = NULL
                 THEN /\ routed' = Answer("container_proxy", client, FALSE, "path",
                                          302, container.id, 0)
                      /\ UNCHANGED fwd
                 ELSE /\ routed' = Answer("container_proxy", client, FALSE, "path",
                                          0, container.id, 0)
                      /\ fwd' = [handler |-> "container_proxy", client |-> client,
                                 target |-> container.id, attempts |-> 0]

\* The wildcard domain of the per-container subdomains (proxy_routes.py:357
\* and 838) and the Host headers of the modelled requests.
DesktopDomain == ".desktop.hub.mdg-hamburg.de"
Hosts ==
    {"", "desktop.hub.mdg-hamburg.de", "desktop.desktop.hub.mdg-hamburg.de",
     "alice-ubuntu-vscode.desktop.hub.mdg-hamburg.de",
     "bob-ubuntu-vscode.desktop.hub.mdg-hamburg.de"}

\* host.split('.desktop.hub.mdg-hamburg.de')[0] when the domain is in the
\* host, "" when it is not.
DomainStarts(host) ==
    {i \in 1..Len(host) :
        /\ i + Len(DesktopDomain) - 1 <= Len(host)
        /\ SubSeq(host, i, i + Len(DesktopDomain) - 1) = DesktopDomain}
Subdomain(host) ==
    IF DomainStarts(host) = {} THEN ""
    ELSE SubSeq(host, 1, SetMin(DomainStarts(host)) - 1)
SubdomainOf == [host \in Hosts |-> Subdomain(host)]

\* The three lookups of the /websockify handlers: the subdomain of the
\* Host (not empty, not 'desktop'), the Referer's segment unless it is
\* asset-like, and the session's current_container.
BySubdomain(host) ==
    IF SubdomainOf[host] # "" /\ SubdomainOf[host] # "desktop"
    THEN GetByProxyPath(SubdomainOf[host]) ELSE {}
RefererTried(referer) == SegmentOf[referer] # "" /\ ~AssetLike[SegmentOf[referer]]
ByReferer(referer) == IF RefererTried(referer) THEN GetByProxyPath(SegmentOf[referer]) ELSE {}
BySession(current_container) ==
    IF current_container # "" THEN GetByProxyPath(current_container) ELSE {}

\* proxy_websocket_root, lines 353-419: the subdomain is looked up first;
\* a Referer with a segment that is not asset-like is looked up whatever
\* the subdomain gave (line 372 does not ask for `not container`) and its
\* result is assigned to `container`; the session is asked when
\* `container` is empty after that.
ResolveWebsocketRoot(host, referer, current_container) ==
    LET afterReferer ==
            IF RefererTried(referer)
            THEN [via |-> "referer", found |-> ByReferer(referer)]
            ELSE [via |-> "subdomain", found |-> BySubdomain(host)]
    IN IF afterReferer.found # {} THEN afterReferer
       ELSE IF BySession(current_container) # {}
       THEN [via |-> "session", found |-> BySession(current_container)]
       ELSE [via |-> "none", found |-> {}]

\* websockify_sock, lines 835-863: each later lookup is made only when
\* `container` is still empty.
ResolveWebsockifySock(host, referer, current_container) ==
    IF BySubdomain(host) # {} THEN [via |-> "subdomain", found |-> BySubdomain(host)]
    ELSE IF ByReferer(referer) # {} THEN [via |-> "referer", found |-> ByReferer(referer)]
    ELSE IF BySession(current_container) # {}
    THEN [via |-> "session", found |-> BySession(current_container)]
    ELSE [via |-> "none", found |-> {}]

\* The answer of a /websockify handler, with the headers and the session
\* value the request came with.
RootAnswer(handler, client, host, referer, via, status, target) ==
    [host |-> host, referer |-> referer, current_container |-> hint[client]]
        @@ Answer(handler, client, FALSE, via, status, target, 0)

\* proxy_websocket_root, lines 287-478: 400 for a Referer or a segment
\* that is too long, 404 when nothing resolves, 500 when the row has no
\* port; else last_accessed is written (line 452) and the socket is handed
\* to the relay (status 0).  The session is not written.
ProxyWebsocketRoot(client, host, referer) ==
    /\ fwd = NoForward
    /\ last' = NoCall
    /\ UNCHANGED <<registry, engine, pc, loc, hint, fwd, tunnel, reply>>
    /\ LET res == ResolveWebsocketRoot(host, referer, hint[client])
       IN IF Len(referer) > 2048 \/ Len(SegmentOf[referer]) > 255
          THEN /\ routed' = RootAnswer("websocket_root", client, host, referer, "none", 400, NULL)
               /\ UNCHANGED sweep
          ELSE IF res.found = {}
          THEN /\ routed' = RootAnswer("websocket_root", client, host, referer, "none", 404, NULL)
               /\ UNCHANGED sweep
          ELSE \E container \in res.found :
                 IF container.host_port = NULL
                 THEN /\ routed' = RootAnswer("websocket_root", client, host, referer,
                                              res.via, 500, container.id)
                      /\ UNCHANGED sweep
                 ELSE /\ routed' = RootAnswer("websocket_root", client, host, referer,
                                              res.via, 0, container.id)
                      /\ sweep' = [sweep EXCEPT !.last_accessed[container.id] = sweep.now]

\* websockify_sock, lines 813-879: the socket is closed (status 1000, the
\* code of a close without one) when nothing resolves or the row has no
\* port, else it is handed to the relay (status 0).
WebsockifySock(client, host, referer) ==
    /\ fwd = NoForward
    /\ last' = NoCall
    /\ UNCHANGED <<registry, engine, pc, loc, hint, fwd>>
    /\ UNCHANGED sideVars
    /\ LET res == ResolveWebsockifySock(host, referer, hint[client])
       IN IF res.found = {}
          THEN routed' = RootAnswer("websockify_sock", client, host, referer, "none", 1000, NULL)
          ELSE \E container \in res.found :
                 routed' = RootAnswer("websockify_sock", client, host, referer, res.via,
                                      IF container.host_port = NULL THEN 1000 ELSE 0,
                                      container.id)

\* proxy_routes.py:24: retries of the session the forwarder sends with.
DEFAULT_RETRIES == 3

\* What a backend may do to the forwarded request.
FailureKinds == {"reset", "connect_timeout", "read_timeout", "bad_status"}
Backends ==
    [fails : 0..(DEFAULT_RETRIES + 1), how : FailureKinds, then : {"response", "request_error"}]

\* Sensitivity variant of RetriesLeft: the session is built without retries.
RetriesLeftNone(total) == 0

\* proxy_routes.py:92-99: Retry(total, read, connect) all start at
\* `retries`, and every failed connection takes one from each counter it
\* counts for, so `total` is what is left.
RetriesLeft(total) == total

\* proxy_routes.py:225-234 through the session of lines 90-103: the
\* request is sent, and sent again after a failure the Retry object
\* counts (every method is in allowed_methods) while retries are left.
\* When none is left requests raises ConnectionError for resets and for
\* both timeouts, RetryError for a status of the force list.
RECURSIVE Forwarded(_, _, _)
Forwarded(backend, attempt, retries) ==
    IF attempt > backend.fails
    THEN [outcome |-> backend.then, attempts |-> attempt]
    ELSE IF retries = 0
    THEN [outcome |-> IF backend.how = "bad_status" THEN "request_error"
                      ELSE "connection_error",
          attempts |-> attempt]
    ELSE Forwarded(backend, attempt + 1, retries - 1)

\* How the forwarded request ends: with the backend's response, or with
\* one of the requests exceptions the handler catches.  The session of
\* container_proxy_routes.py:76-99 has no retry adapter.
ForwardOutcomes(handler, B) ==
    IF handler = "desktop"
    THEN {Forwarded(b, 1, RetriesLeft(DEFAULT_RETRIES)) @@ [backend |-> b] : b \in B}
    ELSE {[outcome |-> o, attempts |-> 1, backend |-> NoBackend] : o \in {"response", "request_error"}}

\* proxy_routes.py:236-279: the backend's status (200 stands for it), 503
\* on ConnectionError, 504 on Timeout, 502 on any other RequestException;
\* container_proxy_routes.py:100-111 redirects on every failure.
ForwardStatus(handler, outcome) ==
    IF outcome = "response" THEN 200
    ELSE IF handler = "container_proxy" THEN 302
    ELSE IF outcome = "connection_error" THEN 503
    ELSE IF outcome = "timeout" THEN 504
    ELSE 502

\* proxy_routes.py:255-270: which 503 text is sent, from the status the
\* check returned; a check that raised leaves the handler at its last
\* return.
StatusMessage(status) ==
    IF status = "raised" THEN "starting"
    ELSE IF status # "running" THEN "not_running"
    ELSE "starting"

\* proxy_routes.py:255-265 with docker_manager.py:13-21 and 263-294: the
\* status check made after a ConnectionError, on the row as the handler
\* loaded it when it built the target URL (status running, container_id
\* set).  DockerManager() raises when the engine does not answer the
\* ping; the inspection raises NotFound, raises something else, or
\* reports a state; exited, dead and NotFound are written as stopped, and
\* an UPDATE of a row deleted meanwhile raises.  Each result is the
\* Registry afterwards, what was found and the status returned ("raised"
\* when the call raised into the handler).
StatusCheck(id) ==
    LET docker_status == IF HasInstance(id) THEN InstanceById(id).state ELSE "not_found"
        stopped == IF HasRow(id)
                   THEN UpdateRow(id, Stopped(RowById(id), docker_status # "not_found"))
                   ELSE registry
    IN {[registry |-> registry, probe |-> "no_manager", status |-> "raised"],
        [registry |-> registry, probe |-> "inspect_failed", status |-> "error"],
        IF docker_status = "not_found"
        THEN IF HasRow(id)
             THEN [registry |-> stopped, probe |-> "not_found", status |-> "stopped"]
             ELSE [registry |-> registry, probe |-> "commit_failed", status |-> "raised"]
        ELSE IF docker_status \in {"exited", "dead"}
        THEN IF HasRow(id)
             THEN [registry |-> stopped, probe |-> docker_status, status |-> "stopped"]
             ELSE [registry |-> registry, probe |-> docker_status, status |-> "error"]
        ELSE [registry |-> registry, probe |-> docker_status, status |-> "running"]}

\* proxy_routes.py:225-279 and container_proxy_routes.py:76-111: the
\* request is sent to the backend, with the retries of the session, and
\* the client is answered.  B is what the backends may do.
ProxyForward(B) ==
    /\ fwd # NoForward
    /\ last' = NoCall
    /\ UNCHANGED <<engine, pc, loc, hint>>
    /\ UNCHANGED sideVars
    /\ fwd' = NoForward
    /\ \E sent \in ForwardOutcomes(fwd.handler, B) :
         LET answer == [Answer(fwd.handler, fwd.client, FALSE, "backend",
                               ForwardStatus(fwd.handler, sent.outcome),
                               fwd.target, sent.attempts)
                          EXCEPT !.backend = sent.backend]
         IN IF fwd.handler = "desktop" /\ sent.outcome = "connection_error"
            THEN \E check \in StatusCheck(fwd.target) :
                   /\ registry' = check.registry
                   /\ routed' = [answer EXCEPT !.probe = check.probe,
                                               !.message = StatusMessage(check.status)]
            ELSE /\ UNCHANGED registry
                 /\ routed' = answer

(* ------------------------------ the Tunnel ---------------------------- *)

\* The two entry points that relay a WebSocket: proxy_routes.py:481
\* (_proxy_websocket_with_gevent) and 882 (_proxy_websocket_flask_sock).
TunnelEntries == {"gevent", "flask_sock"}

\* proxy_routes.py:594: size cap of the handshake response.
MAX_HANDSHAKE_SIZE == 8192

\* What a backend writes is a sequence of pieces: a status line, header
\* filler, the header terminator, and bytes of the upgraded stream.
Terminator == "CRLF CRLF"
Filler == "X-Filler: 8192 bytes"
StatusLines ==
    {"HTTP/1.1 101 Switching Protocols",
     "HTTP/1.0 101 Switching Protocols",
     "HTTP/1.1 403 Forbidden",
     "HTTP/1.1 400 Bad Request 1015"}
DataPieces == {"b1", "b2"}
PieceSize(piece) ==
    IF piece = Filler THEN MAX_HANDSHAKE_SIZE
    ELSE IF piece = Terminator THEN 4
    ELSE Len(piece)
RECURSIVE SizeOf(_)
SizeOf(pieces) ==
    IF pieces = <<>> THEN 0 ELSE PieceSize(Head(pieces)) + SizeOf(Tail(pieces))

\* What the backends of the sessions do: answer the upgrade request and
\* then write none, one or two pieces of data; or send an oversized header.
BackendScripts ==
    {<<line, Terminator>> \o data :
        line \in StatusLines, data \in {<<>>, <<"b1">>, <<"b1", "b2">>}}
    \cup {<<"HTTP/1.1 101 Switching Protocols", Filler, Terminator>>}

\* The status code of a status line: its second field.
StatusCode(line) == SubSeq(line, 10, 12)

\* b"101" in response_status
Contains(s, part) ==
    \E i \in 1..(Len(s) - Len(part) + 1) : SubSeq(s, i, i + Len(part) - 1) = part
\* str.startswith
StartsWith(s, prefix) ==
    Len(s) >= Len(prefix) /\ SubSeq(s, 1, Len(prefix)) = prefix

\* Sensitivity variant of AcceptsUpgrade: every answer is taken for an upgrade.
AcceptsUpgradeAlways(entry, status_line) == TRUE

\* proxy_routes.py:616-618 (b"101" not in response_status) and 975
\* (status_line.startswith('HTTP/1.1 101')).
AcceptsUpgrade(entry, status_line) ==
    IF entry = "gevent" THEN Contains(status_line, "101")
    ELSE StartsWith(status_line, "HTTP/1.1 101")

\* The two tests on the status lines of the modelled backends, evaluated once.
Accepted ==
    [entry \in TunnelEntries |-> [line \in StatusLines |-> AcceptsUpgrade(entry, line)]]
CodeOf == [line \in StatusLines |-> StatusCode(line)]

\* The position after the header terminator in a sequence of pieces, 0
\* when the terminator is not in it.
AfterTerminator(pieces) ==
    LET at == {i \in 1..Len(pieces) : pieces[i] = Terminator}
    IN IF at = {} THEN 0 ELSE SetMin(at) + 1
\* The pieces of the upgraded stream among them.
StreamOf(pieces) ==
    IF AfterTerminator(pieces) = 0 THEN <<>>
    ELSE SubSeq(pieces, AfterTerminator(pieces), Len(pieces))

IsPrefix(s, t) == Len(s) <= Len(t) /\ SubSeq(t, 1, Len(s)) = s

\* Messages a client sends in one session: binary or text frames.
MaxMsgs == 2
FrameKinds == {"binary", "text"}

NoTunnel ==
    [entry |-> "none", phase |-> "idle", target |-> NULL,
     script |-> <<>>,      \* what the backend has still to write
     written |-> <<>>,     \* what the backend wrote
     wire |-> <<>>,        \* written and not yet read by the proxy
     eof |-> FALSE,        \* the backend closed its socket
     response |-> <<>>,    \* the handshake response read so far
     c2b |-> "none",       \* the relay loop client -> backend
     b2c |-> "none",       \* the relay loop backend -> client
     to_client |-> <<>>,   \* what ws.send gave the client
     inbox |-> <<>>,       \* client messages not yet received by the proxy
     client_sent |-> <<>>, \* every message the client sent
     to_backend |-> <<>>,  \* what sendall gave the backend
     client |-> "open",    \* the client's end: open or closed by the client
     ws_close |-> 0,       \* the close code sent to the client, 0 for none
     sock |-> "none",      \* the backend socket: none, open, shut_wr, closed
     accepted |-> 0]       \* the hour at which a route function took the session

\* ws.close(code): the frame goes out unless the client is gone or a
\* close frame was sent before.
Closed(t, code) ==
    IF t.client = "open" /\ t.ws_close = 0 THEN [t EXCEPT !.ws_close = code] ELSE t

\* The relay function returns.  flask_sock's finally clause (1036-1040)
\* closes the backend socket, and flask-sock closes the WebSocket of a
\* handler that returned, with the normal code.
Returned(t) ==
    IF t.entry = "gevent" THEN [t EXCEPT !.phase = "returned"]
    ELSE Closed([t EXCEPT !.phase = "returned",
                          !.sock = IF @ = "none" THEN @ ELSE "closed"], 1000)

\* proxy_routes.py:464, 783 and 879: an entry point resolved a running
\* container with a port and calls the relay function, which connects
\* (543-556, 925-928) and sends the upgrade request (576-590, 948-961).
\* A failed connect ends the call: gevent closes the client with 1011,
\* flask_sock returns through its except clause.
TunnelOpen(entry, script) ==
    /\ tunnel.phase = "idle"
    /\ \E r \in registry :
         /\ r.status = "running"
         /\ r.host_port # NULL
         /\ \/ tunnel' = [NoTunnel EXCEPT !.entry = entry, !.phase = "handshake",
                                          !.target = r.id, !.script = script,
                                          !.sock = "open"]
            \/ tunnel' = LET t == [NoTunnel EXCEPT !.entry = entry, !.target = r.id]
                          IN Returned(IF entry = "gevent" THEN Closed(t, 1011) ELSE t)
    /\ UNCHANGED <<registry, engine, pc, loc, last, hint, fwd, routed, sweep, reply>>

\* The backend writes its next piece.
BackendWrite ==
    /\ tunnel.phase \in {"handshake", "relay"}
    /\ ~tunnel.eof
    /\ tunnel.script # <<>>
    /\ tunnel' = [tunnel EXCEPT !.script = Tail(@),
                                !.written = Append(@, Head(tunnel.script)),
                                !.wire = Append(@, Head(tunnel.script))]
    /\ UNCHANGED <<registry, engine, pc, loc, last, hint, fwd, routed, sweep, reply>>

\* The backend closes its socket.
BackendClose ==
    /\ tunnel.phase \in {"handshake", "relay"}
    /\ ~tunnel.eof
    /\ tunnel' = [tunnel EXCEPT !.eof = TRUE, !.script = <<>>]
    /\ UNCHANGED <<registry, engine, pc, loc, last, hint, fwd, routed, sweep, reply>>

\* The client sends a message.
ClientSend(kind) ==
    /\ tunnel.phase \in {"handshake", "relay"}
    /\ tunnel.client = "open"
    /\ tunnel.ws_close = 0
    /\ Len(tunnel.client_sent) < MaxMsgs
    /\ LET message == [n |-> Len(tunnel.client_sent) + 1, kind |-> kind]
       IN tunnel' = [tunnel EXCEPT !.client_sent = Append(@, message),
                                   !.inbox = Append(@, message)]
    /\ UNCHANGED <<registry, engine, pc, loc, last, hint, fwd, routed, sweep, reply>>

\* The client closes the WebSocket or goes away.
ClientClose ==
    /\ tunnel.phase \in {"handshake", "relay"}
    /\ tunnel.client = "open"
    /\ tunnel' = [tunnel EXCEPT !.client = "closed"]
    /\ UNCHANGED <<registry, engine, pc, loc, last, hint, fwd, routed, sweep, reply>>

\* proxy_routes.py:592-629 and 962-979: one pass of the handshake read
\* loop.  recv returns what the backend wrote, or nothing after it closed;
\* the chunk is appended whole; gevent checks the size cap; once the
\* terminator is there the status line decides.  gevent closes the client
\* with 1011, 1009 or 1002 and returns; flask_sock raises or returns.
HandshakeRead ==
    /\ tunnel.phase = "handshake"
    /\ tunnel.wire # <<>> \/ tunnel.eof
    /\ LET gevent == tunnel.entry = "gevent"
           response == tunnel.response \o tunnel.wire
           read == [tunnel EXCEPT !.response = response, !.wire = <<>>]
       IN tunnel' =
            IF tunnel.wire = <<>>
            THEN Returned(IF gevent THEN Closed(read, 1011) ELSE read)
            ELSE IF gevent /\ SizeOf(response) > MAX_HANDSHAKE_SIZE
            THEN Returned(Closed(read, 1009))
            ELSE IF AfterTerminator(response) = 0
            THEN read
            ELSE IF Accepted[tunnel.entry][response[1]]
            THEN [read EXCEPT !.phase = "relay", !.c2b = "running", !.b2c = "running"]
            ELSE Returned(IF gevent THEN Closed(read, 1002) ELSE read)
    /\ UNCHANGED <<registry, engine, pc, loc, last, hint, fwd, routed, sweep, reply>>

\* proxy_routes.py:644-655 and 1005-1019: one pass of the loop backend ->
\* client.  Data read is given to ws.send, which raises when the client
\* is closed; an empty read or an exception ends the loop.  flask_sock
\* closes the client WebSocket when the loop ends.
RelayBackendToClient ==
    /\ tunnel.phase = "relay"
    /\ tunnel.b2c = "running"
    /\ tunnel.wire # <<>> \/ tunnel.eof \/ tunnel.sock = "closed"
    /\ LET open == tunnel.client = "open" /\ tunnel.ws_close = 0
           ended == [tunnel EXCEPT !.b2c = "ended", !.wire = <<>>]
       IN tunnel' =
            IF tunnel.wire # <<>> /\ tunnel.sock # "closed" /\ open
            THEN [tunnel EXCEPT !.to_client = @ \o tunnel.wire, !.wire = <<>>]
            ELSE IF tunnel.entry = "gevent" THEN ended ELSE Closed(ended, 1000)
    /\ UNCHANGED <<registry, engine, pc, loc, last, hint, fwd, routed, sweep, reply>>

\* What sendall(message) gives the backend: gevent passes the message as
\* received (sendall raises on a str), flask_sock encodes a str.
Sendable(entry, message) == entry = "flask_sock" \/ message.kind = "binary"

\* proxy_routes.py:632-646 and 986-1003: one pass of the loop client ->
\* backend.  A message received is given to sendall, which raises when
\* the backend closed; None, or an exception, ends the loop, and then
\* gevent shuts the write side of the backend socket down, flask_sock
\* closes it.
RelayClientToBackend ==
    /\ tunnel.phase = "relay"
    /\ tunnel.c2b = "running"
    /\ tunnel.inbox # <<>> \/ tunnel.client = "closed" \/ tunnel.ws_close # 0
    /\ LET message == Head(tunnel.inbox)
           ended == [tunnel EXCEPT !.c2b = "ended",
                                   !.sock = IF tunnel.entry = "gevent" THEN "shut_wr" ELSE "closed"]
       IN tunnel' =
            IF tunnel.inbox # <<>> /\ tunnel.ws_close = 0
            THEN IF Sendable(tunnel.entry, message) /\ ~tunnel.eof
                 THEN [tunnel EXCEPT !.inbox = Tail(@), !.to_backend = Append(@, message)]
                 ELSE [ended EXCEPT !.inbox = Tail(@)]
            ELSE ended
    /\ UNCHANGED <<registry, engine, pc, loc, last, hint, fwd, routed, sweep, reply>>

\* Sensitivity variant of SessionBound: no session is bounded.
SessionBoundNone(entry) == FALSE

\* proxy_routes.py:668 joins the loops with timeout=WEBSOCKET_PROXY_TIMEOUT;
\* 1026-1027 joins them without one.
SessionBound(entry) == entry = "gevent"

\* proxy_routes.py:668-679: the session bound passes with a loop still
\* running; the loops are killed.
SessionTimeout ==
    /\ tunnel.phase = "relay"
    /\ SessionBound(tunnel.entry)
    /\ tunnel.c2b = "running" \/ tunnel.b2c = "running"
    /\ tunnel' = [tunnel EXCEPT !.c2b = "ended", !.b2c = "ended",
                                !.sock = IF tunnel.c2b = "running" THEN "shut_wr" ELSE @]
    /\ UNCHANGED <<registry, engine, pc, loc, last, hint, fwd, routed, sweep, reply>>

\* proxy_routes.py:681-697 and 1026-1040: both loops are over; gevent
\* closes the client with 1000 and then the backend socket, flask_sock
\* closes the backend socket.
TunnelClose ==
    /\ tunnel.phase = "relay"
    /\ tunnel.c2b = "ended"
    /\ tunnel.b2c = "ended"
    /\ tunnel' = Returned([(IF tunnel.entry = "gevent" THEN Closed(tunnel, 1000) ELSE tunnel)
                              EXCEPT !.sock = "closed"])
    /\ UNCHANGED <<registry, engine, pc, loc, last, hint, fwd, routed, sweep, reply>>

\* The relay function has returned and the next session may begin.
TunnelDone ==
    /\ tunnel.phase = "returned"
    /\ tunnel' = NoTunnel
    /\ UNCHANGED <<registry, engine, pc, loc, last, hint, fwd, routed, sweep, reply>>

\* The steps the proxy takes by itself.
TunnelSteps ==
    \/ HandshakeRead
    \/ RelayBackendToClient
    \/ RelayClientToBackend
    \/ SessionTimeout
    \/ TunnelClose

\* The route functions that take a WebSocket and the relay function each
\* of them calls: proxy_websocket_root (proxy_routes.py:287, relay call at
\* 464), proxy_websocket (743, relay call at 783) and websockify_sock
\* (814, relay call at 879).
WebsocketRoutes == {"proxy_websocket_root", "proxy_websocket", "websockify_sock"}
RelayOf(route) == IF route = "websockify_sock" THEN "flask_sock" ELSE "gevent"

\* Sensitivity variant of WritesLastAccessed: every route function writes it.
WritesLastAccessedAll(route) == TRUE

\* proxy_routes.py:451-453 and 763-765 write container.last_accessed and
\* commit; websockify_sock (858-879) goes from the port test to the relay
\* call without a write.
WritesLastAccessed(route) == route \in {"proxy_websocket_root", "proxy_websocket"}

\* A route function resolved a running container with a port: it writes
\* last_accessed or not, and calls its relay function, which connects and
\* sends the upgrade request as in TunnelOpen.
WebsocketAccept(route, script) ==
    /\ tunnel.phase = "idle"
    /\ \E r \in registry :
         /\ r.status = "running"
         /\ r.host_port # NULL
         /\ sweep' = IF WritesLastAccessed(route)
                     THEN [sweep EXCEPT !.last_accessed[r.id] = sweep.now]
                     ELSE sweep
         /\ LET entry == RelayOf(route)
                t == [NoTunnel EXCEPT !.entry = entry, !.target = r.id,
                                      !.accepted = sweep.now]
            IN \/ tunnel' = [t EXCEPT !.phase = "handshake", !.script = script,
                                      !.sock = "open"]
               \/ tunnel' = Returned(IF entry = "gevent" THEN Closed(t, 1011) ELSE t)
    /\ UNCHANGED <<registry, engine, pc, loc, last, hint, fwd, routed, reply>>

(* ---------------------------- the scheduler --------------------------- *)

\* Tasks a scheduler is given, the minutes its clock runs through, and
\* the intervals of the tasks, in minutes (the loop sleeps one minute
\* between two passes, scheduler.py:97).
MaxTasks == 2
MaxMinutes == 3
TaskIntervals == {1, 2}

\* scheduler.py:13-17 and 101: BackgroundScheduler() has no app, no task
\* and no thread.  thread is the position of the thread that runs _run:
\* waiting (at the while test or asleep), pass (in the for loop, before
\* task `at`), ended (the while test failed) or dead (an exception left
\* _run).  clock is time.time(), now the local of the pass.
NoScheduler ==
    [app |-> FALSE, tasks |-> <<>>, running |-> FALSE, thread |-> "none",
     clock |-> 0, now |-> 0, at |-> 0]

Scheduler == sweep.scheduler
SchedulerStep(s, op, row, outcome) ==
    /\ sweep' = [sweep EXCEPT !.scheduler = s]
    /\ last' = [op |-> op, row |-> row, outcome |-> outcome]
    /\ UNCHANGED <<registry, engine, pc, loc, hint, fwd, routed, tunnel, reply>>

\* scheduler.py:22-29: init_app stores the app and registers
\* shutdown_scheduler with app.teardown_appcontext: Flask calls it, and
\* with it stop(), whenever an application context is popped.
InitApp ==
    /\ ~Scheduler.app
    /\ SchedulerStep([Scheduler EXCEPT !.app = TRUE], "init_app", NULL, "registered")

\* scheduler.py:31-46: add_task appends the task, last_run None.
AddTask(interval) ==
    /\ Len(Scheduler.tasks) < MaxTasks
    /\ SchedulerStep([Scheduler EXCEPT !.tasks = Append(@, [interval |-> interval,
                                                           last_run |-> NoTime])],
                     "add_task", Len(Scheduler.tasks) + 1, "added")

\* scheduler.py:52-59: start() returns when running is set, else it sets
\* running and starts the thread.  (One thread is modelled: a start while
\* the thread of an earlier start still waits is left out.)
SchedulerStart ==
    /\ ~Scheduler.running
    /\ Scheduler.thread \in {"none", "ended", "dead"}
    /\ SchedulerStep([Scheduler EXCEPT !.running = TRUE, !.thread = "waiting", !.at = 0],
                     "start", NULL, "started")

\* scheduler.py:66-73: stop() returns when running is not set, else it
\* clears running and joins the thread for five seconds.  Called by
\* another thread: a request of the application, or its shutdown.
SchedulerStop ==
    /\ Scheduler.running
    /\ SchedulerStep([Scheduler EXCEPT !.running = FALSE], "stop", NULL, "stopped")

\* scheduler.py:80-81: the while test; a pass begins with now = time.time().
SchedulerWake ==
    /\ Scheduler.thread = "waiting"
    /\ IF Scheduler.running
       THEN SchedulerStep([Scheduler EXCEPT !.thread = "pass", !.now = Scheduler.clock,
                                            !.at = 1],
                          "pass", NULL, "begun")
       ELSE SchedulerStep([Scheduler EXCEPT !.thread = "ended"], "pass", NULL, "ended")

\* scheduler.py:97: the for loop is through; time.sleep(60).
SchedulerSleep ==
    /\ Scheduler.thread = "pass"
    /\ Scheduler.at > Len(Scheduler.tasks)
    /\ Scheduler.clock < MaxMinutes
    /\ SchedulerStep([Scheduler EXCEPT !.thread = "waiting", !.clock = @ + 1, !.at = 0],
                     "pass", NULL, "slept")

\* scheduler.py:85
Due(task, now) == task.last_run = NoTime \/ now - task.last_run >= task.interval

\* What a task does, and what current_app.logger.error does in the except
\* clause (scheduler.py:91-94), which runs after the with block has popped
\* its application context: in a thread without an application context
\* of its own current_app raises RuntimeError, which leaves _run; in a
\* build where the thread has inherited one, the error is logged.
TaskOutcomes == {"returned", "raised"}
LogOutcomes == {"logged", "raised"}
Handled(s, log) ==
    IF log = "logged" THEN [s EXCEPT !.at = @ + 1]
    ELSE [s EXCEPT !.thread = "dead", !.at = 0]

\* scheduler.py:83-94: one task of the pass.  A task that is not due is
\* passed over.  Without an app, self.app.app_context() raises inside the
\* try.  With one, the task is called in an application context and
\* last_run is written when it returned; leaving the with block pops the
\* context and Flask calls shutdown_scheduler: stop() returns when running
\* is not set, else it clears running and joins the thread it runs in,
\* which raises RuntimeError.  Whatever was raised goes to the except
\* clause.
SchedulerRun(outcome, log) ==
    /\ Scheduler.thread = "pass"
    /\ Scheduler.at \in 1..Len(Scheduler.tasks)
    /\ LET s == Scheduler
           k == s.at
           ran == IF outcome = "returned" THEN [s EXCEPT !.tasks[k].last_run = s.now] ELSE s
       IN IF ~Due(s.tasks[k], s.now)
          THEN SchedulerStep([s EXCEPT !.at = k + 1], "task", k, "skipped")
          ELSE IF ~s.app
          THEN SchedulerStep(Handled(s, log), "task", k, "no_app")
          ELSE IF s.running
          THEN SchedulerStep(Handled([ran EXCEPT !.running = FALSE], log), "task", k, outcome)
          ELSE IF outcome = "returned"
          THEN SchedulerStep([ran EXCEPT !.at = k + 1], "task", k, outcome)
          ELSE SchedulerStep(Handled(ran, log), "task", k, outcome)

(* ------------------------------ idle sweep ---------------------------- *)

\* Hours the clock of the model runs through, and the idle thresholds
\* (CONTAINER_IDLE_TIMEOUT_HOURS) a sweep may be configured with.
MaxTime == 3
Thresholds == {1, 2}

\* No removal of stopped containers is under way.
NoCleanup ==
    [entry |-> "none", phase |-> "idle", old_containers |-> {}, row |-> NULL,
     removed |-> {}, failed |-> {}]

\* models.containers.Container.last_accessed (containers.py:32), kept
\* beside the rows; no sweep is under way.
NoSweep ==
    [now |-> 0, last_accessed |-> [id \in RowIds |-> 0], phase |-> "idle",
     threshold |-> 0, seen |-> [id \in RowIds |-> 0], started |-> 0,
     todo |-> {}, row |-> NULL, stamp |-> FALSE, stopped |-> {}, failed |-> {},
     cleanup |-> NoCleanup, scheduler |-> NoScheduler]

\* Sensitivity variant of IdleRows: every running row is taken for idle.
IdleRowsAll(now, accessed, threshold) ==
    {r.id : r \in {q \in registry : q.status = "running"}}

\* stop_idle_containers(idle_hours): the running rows whose last access
\* is more than the threshold ago.
IdleRows(now, accessed, threshold) ==
    {r.id : r \in {q \in registry : q.status = "running" /\ now - accessed[q.id] > threshold}}

\* An hour passes.
Tick ==
    /\ sweep.now < MaxTime
    /\ sweep' = [sweep EXCEPT !.now = @ + 1]
    /\ UNCHANGED <<registry, engine, pc, loc, last, hint, fwd, routed, tunnel, reply>>

\* proxy_routes.py:176-177 (and 452, 764): a request resolved to a
\* running container writes its last_accessed.
Access(id) ==
    /\ HasRow(id)
    /\ RowById(id).status = "running"
    /\ sweep.last_accessed[id] # sweep.now
    /\ sweep' = [sweep EXCEPT !.last_accessed[id] = sweep.now]
    /\ UNCHANGED <<registry, engine, pc, loc, last, hint, fwd, routed, tunnel, reply>>

\* scheduler.py:104-114: check_idle_containers reads the threshold and
\* calls stop_idle_containers, which selects the idle rows.
SweepQuery(threshold) ==
    /\ sweep.phase \in {"idle", "done"}
    /\ sweep' = [sweep EXCEPT !.phase = "stopping", !.threshold = threshold,
                              !.seen = sweep.last_accessed, !.started = sweep.now,
                              !.todo = IdleRows(sweep.now, sweep.last_accessed, threshold),
                              !.row = NULL, !.stopped = {}, !.failed = {}]
    /\ UNCHANGED <<registry, engine, pc, loc, last, hint, fwd, routed, tunnel, reply>>

\* The sweep calls stop_container (docker_manager.py:196-203, 213,
\* 219-222) on a selected row: the engine stops the instance, or does not
\* know it, or fails; a failure is logged and the sweep goes on with the
\* other rows.
SweepStopEngine(id) ==
    /\ sweep.phase = "stopping"
    /\ id \in sweep.todo
    /\ UNCHANGED <<registry, pc, loc, last, hint, fwd, routed, tunnel, reply>>
    /\ LET rec == RowById(id)
           next == [sweep EXCEPT !.todo = @ \ {id}]
       IN IF ~HasRow(id)
          THEN /\ UNCHANGED engine
               /\ sweep' = [next EXCEPT !.failed = @ \cup {id}]
          ELSE IF StopsNothing(rec)
          THEN /\ UNCHANGED engine
               /\ sweep' = [next EXCEPT !.failed = @ \cup {id}]
          ELSE IF ~HasInstance(rec.container_id)
          THEN /\ UNCHANGED engine
               /\ sweep' = [next EXCEPT !.phase = "commit", !.row = id, !.stamp = FALSE]
          ELSE \/ /\ engine' = IF InstanceById(rec.container_id).state = "running"
                               THEN SetInstanceState(rec.container_id, "exited")
                               ELSE engine
                  /\ sweep' = [next EXCEPT !.phase = "commit", !.row = id, !.stamp = TRUE]
               \/ /\ UNCHANGED engine
                  /\ sweep' = [next EXCEPT !.failed = @ \cup {id}]

\* docker_manager.py:205-207 and 217-218: status = 'stopped'; commit.
SweepStopCommit ==
    /\ sweep.phase = "commit"
    /\ UNCHANGED <<engine, pc, loc, last, hint, fwd, routed, tunnel, reply>>
    /\ IF HasRow(sweep.row)
       THEN /\ registry' = UpdateRow(sweep.row, Stopped(RowById(sweep.row), sweep.stamp))
            /\ sweep' = [sweep EXCEPT !.phase = "stopping", !.stopped = @ \cup {sweep.row},
                                      !.row = NULL, !.stamp = FALSE]
       ELSE /\ UNCHANGED registry
            /\ sweep' = [sweep EXCEPT !.phase = "stopping", !.failed = @ \cup {sweep.row},
                                      !.row = NULL, !.stamp = FALSE]

\* scheduler.py:116-119: every selected row was gone through.
SweepDone ==
    /\ sweep.phase = "stopping"
    /\ sweep.todo = {}
    /\ sweep' = [sweep EXCEPT !.phase = "done"]
    /\ UNCHANGED <<registry, engine, pc, loc, last, hint, fwd, routed, tunnel, reply>>

(* ---------------------------- retention sweep ------------------------- *)

\* The two loops that remove stopped containers: the scheduler's task
\* (scheduler.py:124-133, docker_manager.py:296-315) and the
\* administrator's route (admin_routes.py:208-243).
CleanupEntries == {"scheduler", "admin"}

\* docker_manager.py:302  timedelta(hours=1)
RETENTION_HOURS == 1

\* docker_manager.py:302-306: status == 'stopped' and stopped_at < cutoff
\* (a NULL stopped_at compares as unknown, the row is not selected);
\* admin_routes.py:216: every stopped row.
OldContainers(entry) ==
    {r.id : r \in {q \in registry :
                     /\ q.status = "stopped"
                     /\ entry = "scheduler" =>
                          (q.stopped_at # NoTime /\ q.stopped_at < Now - RETENTION_HOURS)}}

\* docker_manager.py:302-306, admin_routes.py:213-216: the query.
CleanupQuery(entry) ==
    /\ sweep.cleanup.phase \in {"idle", "done", "aborted"}
    /\ sweep' = [sweep EXCEPT !.cleanup =
                    [entry |-> entry, phase |-> "removing",
                     old_containers |-> OldContainers(entry), row |-> NULL,
                     removed |-> {}, failed |-> {}]]
    /\ UNCHANGED <<registry, engine, pc, loc, last, hint, fwd, routed, tunnel, reply>>

\* remove_container raised on a row.  The administrator's loop catches
\* the exception per row (admin_routes.py:220-226) and goes on; the
\* scheduler's loop has no handler of its own, the exception leaves the
\* for statement and ends in docker_manager.py:313-315 (log, rollback):
\* the rows not yet gone through stay as they are.
CleanupFailed(c, id) ==
    IF c.entry = "admin"
    THEN [c EXCEPT !.failed = @ \cup {id}]
    ELSE [c EXCEPT !.failed = @ \cup {id}, !.phase = "aborted"]

\* docker_manager.py:309 / admin_routes.py:221 with 231-242: the loop
\* calls remove_container on the next row of its list.  The engine removes
\* the instance, or does not know it (NotFound passes), or fails.  A row
\* deleted meanwhile is not noticed while the objects are as loaded; once
\* a commit or rollback of this loop has expired them, reading
\* container_id raises.
CleanupRemoveEngine(id) ==
    /\ sweep.cleanup.phase = "removing"
    /\ id \in sweep.cleanup.old_containers
    /\ UNCHANGED <<registry, pc, loc, last, hint, fwd, routed, tunnel, reply>>
    /\ LET c == [sweep.cleanup EXCEPT !.old_containers = @ \ {id}]
           expired == c.removed # {} \/ c.failed # {}
           cid == IF HasRow(id) THEN RowById(id).container_id ELSE id
       IN IF ~HasRow(id) /\ expired
          THEN /\ UNCHANGED engine
               /\ sweep' = [sweep EXCEPT !.cleanup = CleanupFailed(c, id)]
          ELSE IF cid = NULL \/ ~HasInstance(cid)
          THEN /\ UNCHANGED engine
               /\ sweep' = [sweep EXCEPT !.cleanup = [c EXCEPT !.phase = "delete", !.row = id]]
          ELSE \/ /\ engine' = RemoveInstance(cid)
                  /\ sweep' = [sweep EXCEPT !.cleanup = [c EXCEPT !.phase = "delete", !.row = id]]
               \/ /\ UNCHANGED engine
                  /\ sweep' = [sweep EXCEPT !.cleanup = CleanupFailed(c, id)]

\* docker_manager.py:245-246: db.session.delete(container_record); commit.
CleanupDelete ==
    /\ sweep.cleanup.phase = "delete"
    /\ registry' = DeleteRow(sweep.cleanup.row)
    /\ sweep' = [sweep EXCEPT !.cleanup.phase = "removing",
                              !.cleanup.removed = @ \cup {sweep.cleanup.row},
                              !.cleanup.row = NULL]
    /\ UNCHANGED <<engine, pc, loc, last, hint, fwd, routed, tunnel, reply>>

\* docker_manager.py:311, admin_routes.py:228-236: the list was gone
\* through.
CleanupEnd ==
    /\ sweep.cleanup.phase = "removing"
    /\ sweep.cleanup.old_containers = {}
    /\ sweep' = [sweep EXCEPT !.cleanup.phase = "done"]
    /\ UNCHANGED <<registry, engine, pc, loc, last, hint, fwd, routed, tunnel, reply>>

\* The steps of a removal of stopped containers.
Cleanup(E) ==
    \/ \E entry \in E : CleanupQuery(entry)
    \/ \E id \in RowIds : CleanupRemoveEngine(id)
    \/ CleanupDelete
    \/ CleanupEnd

(* ------------------------- provisioning and lookup API ---------------- *)

NoReply == [route |-> "none", tick |-> 0]

\* docker_manager.py:349-366: the address the client reaches the desktop at.
ContainerUrl(row) == "http://localhost/desktop/" \o row.proxy_path

\* containers.py:51-62.  The timestamps are not kept in the rows of the
\* model; their keys are.
to_dict(row) ==
    [id |-> row.id,
     container_id |-> row.container_id,
     container_name |-> row.container_name,
     status |-> row.status,
     host_port |-> row.host_port,
     created_at |-> "isoformat", started_at |-> "isoformat", last_accessed |-> "isoformat"]

\* docker_manager.py:265-294: the dict get_container_status returns, from
\* how the call ended.
StatusInfo(row, outcome) ==
    IF outcome = "unknown" THEN [status |-> row.status, docker_status |-> "unknown"]
    ELSE IF outcome = "inspect_failed"
    THEN [status |-> "error", docker_status |-> "error", error |-> "str(e)"]
    ELSE IF ~HasInstance(row.container_id)
    THEN [status |-> "stopped", docker_status |-> "not_found"]
    ELSE [status |-> row.status,
          docker_status |-> InstanceById(row.container_id).state,
          host_port |-> row.host_port,
          created_at |-> "isoformat"]

\* container_routes.py:111-128: /container/start answers after
\* create_container returned a row (201), or raised (500, lines 130-135).
ApiStart ==
    /\ last.op = "create"
    /\ LET body == IF last.outcome \in {"created", "existing"} /\ HasRow(last.row)
                   THEN [success |-> TRUE, container |-> to_dict(RowById(last.row)),
                         url |-> ContainerUrl(RowById(last.row))]
                   ELSE [success |-> FALSE, error |-> "str(e)"]
       IN reply' = [route |-> "start", tick |-> 1 - reply.tick,
                    status |-> IF body.success THEN 201 ELSE 500, body |-> body]
    /\ last' = NoCall
    /\ routed' = NoAnswer
    /\ UNCHANGED <<registry, engine, pc, loc, hint, fwd, tunnel, sweep>>

\* container_routes.py:96-109 (start, a running row exists), 152-164
\* (status) and 283-296 (list): the route called get_container_status on
\* a row and answers with to_dict, the status dict and the url.
ApiStatus(route) ==
    /\ last.op = "reconcile"
    /\ HasRow(last.row)
    /\ LET row == RowById(last.row)
           info == StatusInfo(row, last.outcome)
           body == IF route = "status"
                   THEN [success |-> TRUE, container |-> to_dict(row),
                         status |-> info, url |-> ContainerUrl(row)]
                   ELSE IF route = "list"
                   THEN [success |-> TRUE,
                         containers |-> <<[to_dict(row) EXCEPT !.status = info.status]
                                           @@ [docker_status |-> info.docker_status,
                                               url |-> ContainerUrl(row)]>>]
                   ELSE [success |-> TRUE, container |-> to_dict(row), url |-> ContainerUrl(row)]
       IN /\ route = "start" => info.status = "running"
          /\ reply' = [route |-> route, tick |-> 1 - reply.tick, status |-> 200, body |-> body]
    /\ last' = NoCall
    /\ routed' = NoAnswer
    /\ UNCHANGED <<registry, engine, pc, loc, hint, fwd, tunnel, sweep>>

\* apache_api_routes.py:12: the shared secret, and the X-API-Key headers
\* of the modelled requests ("" for a request without the header).
APACHE_API_KEY == "change-this-in-production"
ApiKeys == {APACHE_API_KEY, "guess", ""}

\* func.lower on the proxy paths of the modelled requests.
LookupPaths == {"alice-ubuntu-vscode", "Alice-Ubuntu-VSCode", "bob-ubuntu-vscode", "assets"}
UpperCase == ("A" :> "a") @@ ("U" :> "u") @@ ("V" :> "v") @@ ("S" :> "s") @@ ("C" :> "c")
RECURSIVE lower(_)
lower(s) ==
    IF s = "" THEN ""
    ELSE (IF CharAt(s, 1) \in DOMAIN UpperCase THEN UpperCase[CharAt(s, 1)] ELSE CharAt(s, 1))
         \o lower(SubSeq(s, 2, Len(s)))
Lowered == [path \in LookupPaths |-> lower(path)]

\* Sensitivity variant of Authorized: every caller is let in.
AuthorizedAlways(api_key) == TRUE

\* apache_api_routes.py:23-24: api_key != APACHE_API_KEY is refused.
Authorized(api_key) == api_key = APACHE_API_KEY

\* apache_api_routes.py:30-33: the running rows with this proxy_path,
\* compared in lower case.  Every proxy_path of the model is lower case.
RunningByPath(proxy_path) ==
    {r \in registry : r.proxy_path = Lowered[proxy_path] /\ r.status = "running"}

\* apache_api_routes.py:15-46, get_container_target; NoTarget is the
\* JSON null.
NoTarget == [host |-> "", port |-> NULL]
DOCKER_HOST_IP == "172.22.0.36"
ApacheLookup(proxy_path, api_key) ==
    /\ LET found == RunningByPath(proxy_path)
           request == [route |-> "apache", tick |-> 1 - reply.tick,
                       proxy_path |-> proxy_path, api_key |-> api_key]
       IN IF ~Authorized(api_key)
          THEN reply' = request @@ [status |-> 401, body |-> [error |-> "Unauthorized"]]
          ELSE IF found = {}
          THEN reply' = request @@ [status |-> 200, body |-> [target |-> NoTarget]]
          ELSE \E container \in found :
                 reply' = request @@
                    [status |-> 200,
                     body |-> [target |-> IF container.host_port = NULL THEN NoTarget
                                          ELSE [host |-> DOCKER_HOST_IP,
                                                port |-> container.host_port]]]
    /\ last' = NoCall
    /\ routed' = NoAnswer
    /\ UNCHANGED <<registry, engine, pc, loc, hint, fwd, tunnel, sweep>>

Api ==
    \/ ApiStart
    \/ \E route \in {"start", "status", "list"} : ApiStatus(route)
    \/ \E proxy_path \in LookupPaths, api_key \in ApiKeys : ApacheLookup(proxy_path, api_key)

(* --------------------------- specifications --------------------------- *)

Init ==
    /\ registry = {}
    /\ engine = {}
    /\ pc = [p \in Procs |-> "idle"]
    /\ loc = [p \in Procs |-> Idle]
    /\ last = NoCall
    /\ hint = [c \in Clients |-> ""]
    /\ fwd = NoForward
    /\ routed = NoAnswer
    /\ tunnel = NoTunnel
    /\ sweep = NoSweep
    /\ reply = NoReply

\* The steps of the lifecycle manager, for requests P on sessions S.
Lifecycle(P, S) ==
    \/ \E p \in P, s \in S, d \in DesktopTypes : CreateLookup(p, s, d)
    \/ \E p \in P : CreateCleanupEngine(p)
    \/ \E p \in P : CreateCleanupDelete(p)
    \/ \E p \in P : CreateInsert(p)
    \/ \E p \in P : CreateAllocate(p)
    \/ \E p \in P : CreateRun(p)
    \/ \E p \in P : CreateCommit(p)
    \/ \E p \in P : CreateFailed(p)
    \/ \E p \in P, id \in RowIds : StopEngine(p, id)
    \/ \E p \in P : StopCommit(p)
    \/ \E p \in P, id \in RowIds : RemoveEngine(p, id)
    \/ \E p \in P : RemoveDelete(p)
    \/ \E p \in P, id \in RowIds : ReconcileInspect(p, id)
    \/ \E p \in P : ReconcileCommit(p)
    \/ \E cid \in RowIds : EngineExit(cid)
    \/ \E cid \in RowIds : EngineStart(cid)

Routing(B) ==
    \/ \E c \in Clients, path \in RequestPaths, referer \in Referers :
         ProxyToContainer(c, path, referer)
    \/ \E c \in Clients, path \in RequestPaths : ContainerProxy(c, path)
    \/ ProxyForward(B)

\* Concurrent lifecycle requests of two users.
Next == Lifecycle(Procs, {"aaaaaaaa-0001", "cccccccc-0003"})
Spec == Init /\ [][Next]_vars

\* One user with two sessions, and another user; requests one at a time.
NextSessions == Lifecycle({"p1"}, Sessions)
SpecSessions == Init /\ [][NextSessions]_vars

\* One user more than the range has ports: the users start and stop
\* their desktops, one request at a time.
PortSessions ==
    {"aaaaaaaa-0001", "cccccccc-0003"}
        \cup {FurtherSessions[i] : i \in 1..(PortRangeSize - 1)}
PortRowIds == 1..(PortRangeSize + 1)

\* Users of the sessions S start and stop their desktops, one request at a
\* time; new rows take their ids from Ids.
StartStop(S, Ids) ==
    \/ \E s \in S, d \in DesktopTypes : CreateLookup("p1", s, d)
    \/ CreateCleanupEngine("p1")
    \/ CreateCleanupDelete("p1")
    \/ CreateInsertIn("p1", Ids)
    \/ CreateAllocate("p1")
    \/ CreateRun("p1")
    \/ CreateCommit("p1")
    \/ CreateFailed("p1")
    \/ \E id \in Ids : StopEngine("p1", id)
    \/ StopCommit("p1")
NextPorts == StartStop(PortSessions, PortRowIds)
SpecPorts == Init /\ [][NextPorts]_vars

\* Proxied requests while containers come and go; a backend answers, or
\* fails at once, or resets every connection.
PlainBackends ==
    {b \in Backends : b.how = "reset" /\ (b.fails = 0 \/ (b.fails > DEFAULT_RETRIES /\ b.then = "response"))}
NextRoute == Lifecycle({"p1"}, {"aaaaaaaa-0001", "cccccccc-0003"}) \/ Routing(PlainBackends)
SpecRoute == Init /\ [][NextRoute]_vars

\* Two users start and stop their desktops while a client loads pages
\* and opens WebSockets at /websockify, through either handler of that
\* path.
RootRouting ==
    \/ \E c \in Clients, host \in Hosts, referer \in Referers :
         ProxyWebsocketRoot(c, host, referer)
    \/ \E c \in Clients, host \in Hosts, referer \in Referers :
         WebsockifySock(c, host, referer)
    \/ \E c \in Clients, path \in RequestPaths, referer \in Referers :
         ProxyToContainer(c, path, referer)
    \/ ProxyForward({b \in PlainBackends : b.fails = 0})
NextWebsockify == StartStop({"aaaaaaaa-0001", "cccccccc-0003"}, RowIds) \/ RootRouting
SpecWebsockify == Init /\ [][NextWebsockify]_vars

\* One user's container comes and goes while requests are forwarded to
\* backends of every kind.
NextForward == Lifecycle({"p1"}, {"aaaaaaaa-0001"}) \/ Routing(Backends)
SpecForward == Init /\ [][NextForward]_vars

\* The provisioning routes and the lookup API while one user's container
\* comes and goes.
NextApi == Lifecycle({"p1"}, {"aaaaaaaa-0001"}) \/ Api
SpecApi == Init /\ [][NextApi]_vars

\* WebSocket sessions to the container of one user, which a Create has
\* started.
InitTunnel ==
    /\ registry = {[NewRow(1, "aaaaaaaa-0001", "ubuntu-vscode")
                      EXCEPT !.container_id = 1, !.host_port = start_port, !.status = "running"]}
    /\ engine = {[id |-> 1, name |-> NewRow(1, "aaaaaaaa-0001", "ubuntu-vscode").container_name,
                   host_port |-> start_port, state |-> "running"]}
    /\ pc = [p \in Procs |-> "idle"]
    /\ loc = [p \in Procs |-> Idle]
    /\ last = NoCall
    /\ hint = [c \in Clients |-> ""]
    /\ fwd = NoForward
    /\ routed = NoAnswer
    /\ tunnel = NoTunnel
    /\ sweep = NoSweep
    /\ reply = NoReply
NextTunnel ==
    \/ \E entry \in TunnelEntries, script \in BackendScripts : TunnelOpen(entry, script)
    \/ BackendWrite
    \/ BackendClose
    \/ \E kind \in FrameKinds : ClientSend(kind)
    \/ ClientClose
    \/ HandshakeRead
    \/ RelayBackendToClient
    \/ RelayClientToBackend
    \/ SessionTimeout
    \/ TunnelClose
    \/ TunnelDone
SpecTunnel == InitTunnel /\ [][NextTunnel]_vars

\* The proxy keeps taking its steps, and the session bound passes; the
\* peers are under no obligation.
SpecTunnelLive == SpecTunnel /\ WF_vars(TunnelSteps)

\* Idle sweeps over the containers of two users, which are used and
\* stopped meanwhile.
InitSweep ==
    /\ registry = {[NewRow(1, "aaaaaaaa-0001", "ubuntu-vscode")
                      EXCEPT !.container_id = 1, !.host_port = start_port, !.status = "running"],
                   [NewRow(2, "cccccccc-0003", "ubuntu-vscode")
                      EXCEPT !.container_id = 2, !.host_port = start_port + 1, !.status = "running"]}
    /\ engine = {[id |-> r.id, name |-> r.container_name, host_port |-> r.host_port,
                   state |-> "running"] : r \in registry}
    /\ pc = [p \in Procs |-> "idle"]
    /\ loc = [p \in Procs |-> Idle]
    /\ last = NoCall
    /\ hint = [c \in Clients |-> ""]
    /\ fwd = NoForward
    /\ routed = NoAnswer
    /\ tunnel = NoTunnel
    /\ sweep = NoSweep
    /\ reply = NoReply
NextSweep ==
    \/ Tick
    \/ \E id \in RowIds : Access(id)
    \/ \E threshold \in Thresholds : SweepQuery(threshold)
    \/ \E id \in RowIds : SweepStopEngine(id)
    \/ SweepStopCommit
    \/ SweepDone
    \/ \E id \in RowIds : StopEngine("p1", id)
    \/ StopCommit("p1")
    \/ \E cid \in RowIds : EngineExit(cid)
SpecSweep == InitSweep /\ [][NextSweep]_vars

\* The containers of two users are stopped, reconciled and removed while
\* the hours pass and stopped containers are cleaned up, by the scheduler
\* and by the administrator.
NextCleanup ==
    \/ Tick
    \/ Cleanup(CleanupEntries)
    \/ \E id \in RowIds : StopEngine("p1", id)
    \/ StopCommit("p1")
    \/ \E id \in RowIds : RemoveEngine("p1", id)
    \/ RemoveDelete("p1")
    \/ \E id \in RowIds : ReconcileInspect("p1", id)
    \/ ReconcileCommit("p1")
    \/ \E cid \in RowIds : EngineExit(cid)
SpecCleanup == InitSweep /\ [][NextCleanup]_vars

\* One user's container is created, used, stopped and removed by requests
\* that may die or meet a failing commit, while the hours pass and the
\* scheduler runs its two tasks.  (last_accessed of a row created here
\* stays at hour 0, which only lets the idle sweep stop it sooner.)
IdleSweep ==
    \/ \E threshold \in Thresholds : SweepQuery(threshold)
    \/ \E id \in RowIds : SweepStopEngine(id)
    \/ SweepStopCommit
    \/ SweepDone
NextMaintenance ==
    \/ Lifecycle({"p1"}, {"aaaaaaaa-0001"})
    \/ Crash("p1")
    \/ StopCommitFails("p1")
    \/ RemoveDeleteFails("p1")
    \/ Tick
    \/ IdleSweep
    \/ Cleanup({"scheduler"})
SpecMaintenance == Init /\ [][NextMaintenance]_vars

\* scheduler.py:78-96: the scheduler's loop runs each task again whenever
\* its interval has passed, so the clock and both sweeps keep going.  The
\* engine does not fail their calls for ever, nor the database the commits
\* of requests made again and again; requests are under no obligation.
\* The engine does not fail the sweeps' calls for ever.
SweepStops == \E id \in RowIds : SweepStopEngine(id) /\ sweep'.phase = "commit"
CleanupRemoves == \E id \in RowIds : CleanupRemoveEngine(id) /\ sweep'.cleanup.phase = "delete"
SpecMaintenanceLive ==
    /\ SpecMaintenance
    /\ WF_vars(Tick)
    /\ WF_vars(IdleSweep)
    /\ WF_vars(Cleanup({"scheduler"}))
    /\ SF_vars(SweepStops)
    /\ SF_vars(CleanupRemoves)
    /\ SF_vars(StopCommit("p1"))
    /\ SF_vars(RemoveDelete("p1"))

(* ------------------------------ properties ---------------------------- *)

Active == {"creating", "running"}
Stale == {"stopped", "error"}
SameTriple(r1, r2) ==
    /\ r1.user_id = r2.user_id
    /\ r1.session_id = r2.session_id
    /\ r1.desktop_type = r2.desktop_type

\* The port a row is assigned: the one stored in it or, before the
\* commit, the one the allocator returned to the Create that owns the row.
AssignedPort(r) ==
    IF r.host_port # NULL THEN r.host_port
    ELSE LET holders == {p \in Procs : /\ pc[p] \in {"c_run", "c_commit"}
                                       /\ loc[p].row = r.id}
         IN IF holders = {} THEN NULL ELSE loc[CHOOSE p \in holders : TRUE].host_port

\* C1: no two Registry rows in creating or running are assigned the same
\* host port, under any interleaving of concurrent Create calls.
C1_NoSharedPort ==
    \A r1, r2 \in registry :
        (/\ r1.id # r2.id
         /\ r1.status \in Active
         /\ r2.status \in Active
         /\ AssignedPort(r1) # NULL)
        => AssignedPort(r1) # AssignedPort(r2)

\* C2: a Create call on a triple whose row is running ends at once: it
\* returns that row, the Registry and the engine are as they were (no row
\* inserted, no field changed, no engine call), and the call goes on to no
\* allocation step.
C2_CreateRunningUnchanged ==
    [][\A p \in Procs, s \in Sessions, d \in DesktopTypes :
         (/\ \E r \in ExistingRows(s, d) : r.status = "running"
          /\ CreateLookup(p, s, d))
         => (/\ registry' = registry
             /\ engine' = engine
             /\ pc'[p] = "idle"
             /\ last'.op = "create"
             /\ last'.outcome = "existing"
             /\ \E r \in ExistingRows(s, d) : r.status = "running" /\ last'.row = r.id)]_vars

\* A Create has just returned the running row of its triple.
C2_Witness ==
    /\ last.op = "create"
    /\ last.outcome = "existing"
    /\ HasRow(last.row)
    /\ RowById(last.row).status = "running"

\* C3: when a Remove call has finished, the row and the engine instance of
\* the container are both gone or both still there.
C3_RemoveBothOrNeither ==
    last.op = "remove" => (HasRow(last.row) <=> HasInstance(last.row))

\* C4: each triple has at most one row in creating or running, and no
\* second row of the triple exists beside it: a stale row is gone before
\* the new one is inserted.
C4_OneRowPerTriple ==
    /\ \A r1, r2 \in registry :
         (SameTriple(r1, r2) /\ r1.status \in Active /\ r2.status \in Active) => r1 = r2
    /\ \A r1, r2 \in registry : SameTriple(r1, r2) => r1 = r2

\* Two Creates of one triple ran concurrently: one has inserted its row,
\* the other was refused at its insert.
C4_Witness ==
    /\ last.op = "create"
    /\ last.outcome = "unique_violation"
    /\ \E p \in Procs :
         /\ pc[p] \in {"c_alloc", "c_run", "c_commit", "c_failed"}
         /\ HasRow(loc[p].row)
         /\ RowById(loc[p].row).status = "creating"

\* C5: a row in stopped or error has a null host_port once the call that
\* stopped it is over.
C5_StaleRowsHaveNoPort ==
    (\A p \in Procs : pc[p] = "idle")
    => \A r \in registry : r.status \in Stale => r.host_port = NULL

\* The transitions of the lifecycle table between stored statuses.
LifecycleTable ==
    {<<"creating", "running">>, <<"creating", "error">>,
     <<"running", "stopped">>, <<"running", "error">>}

\* The status changes a step makes: <<row id, old status, new status>>.
StatusChanges ==
    UNION {{<<r.id, r.status, n.status>> :
                n \in {x \in registry' : x.id = r.id /\ x.status # r.status}} :
           r \in registry}

\* C6 as stated: every status change is a transition of the lifecycle
\* table; none goes from creating to stopped and none leaves stopped or
\* error for running or creating.
C6_TableOnly ==
    [][\A ch \in StatusChanges :
         /\ <<ch[2], ch[3]>> \in LifecycleTable
         /\ ~(ch[2] \in Stale /\ ch[3] \in Active)]_vars

\* The step is the commit of a Reconcile of row id that found the engine
\* instance running.
ReconcileFoundRunning(id) ==
    \E p \in Procs :
        /\ pc[p] = "g_commit"
        /\ loc[p].row = id
        /\ loc[p].status = "running"
        /\ pc'[p] = "idle"

\* C6: every status change is a transition of the lifecycle table, or is
\* stopped -> running made by a Reconcile that found the engine instance
\* running; none goes from creating to stopped and none returns to
\* creating.
C6_TableOrReconciledRunning ==
    [][\A ch \in StatusChanges :
         /\ \/ <<ch[2], ch[3]>> \in LifecycleTable
            \/ /\ <<ch[2], ch[3]>> = <<"stopped", "running">>
               /\ ReconcileFoundRunning(ch[1])
         /\ <<ch[2], ch[3]>> # <<"creating", "stopped">>
         /\ ch[3] # "creating"]_vars

\* A Reconcile has just set a stopped row back to running.
C6_Witness ==
    /\ last.op = "reconcile"
    /\ last.outcome = "running"
    /\ HasRow(last.row)
    /\ RowById(last.row).status = "running"

\* C7: a Create is refused at its insert for a uniqueness conflict only
\* when a conflicting row is not stale (stale conflicting rows having been
\* removed first).
C7_NoConflictWithStaleRows ==
    [][\A p \in Procs :
         (/\ pc[p] = "c_insert"
          /\ last'.op = "create"
          /\ last'.outcome = "unique_violation"
          /\ pc'[p] = "idle")
         => \E r \in InsertConflicts(NewRow(FreshId, loc[p].session_id, loc[p].desktop_type)) :
                r.status \notin Stale]_vars

\* C8: a non-asset request on the proxy_path of a running container is
\* sent on to that container, and the client's sticky hint becomes that
\* proxy_path.
C8_DirectMatchSetsHint ==
    [][\A c \in Clients, path \in RequestPaths, referer \in Referers :
         (/\ routed'.handler = "desktop"
          /\ ~routed'.asset
          /\ ~AssetLike[path]
          /\ GetByProxyPath(path) # {}
          /\ ProxyToContainer(c, path, referer))
         => (/\ fwd'.handler = "desktop"
             /\ fwd'.target \in {r.id : r \in GetByProxyPath(path)}
             /\ routed'.status = 0
             /\ hint'[c] = path)]_vars

\* A non-asset request has just resolved by its own segment.
C8_Witness ==
    /\ routed.handler = "desktop"
    /\ ~routed.asset
    /\ routed.via = "path"
    /\ fwd.handler = "desktop"
    /\ fwd.target = routed.target
    /\ RowById(routed.target).status = "running"
    /\ hint[routed.client] = RowById(routed.target).proxy_path

\* C9: an asset request whose Referer is missing, has no address segment
\* or has an asset-like one, and whose sticky hint names a running
\* container, is sent on to the container of the hint; the hint stays.
C9_AssetFallsBackToHint ==
    [][\A c \in Clients, path \in RequestPaths, referer \in Referers :
         (/\ routed'.handler = "desktop"
          /\ routed'.asset
          /\ AssetLike[path]
          /\ SegmentOf[referer] = "" \/ AssetLike[SegmentOf[referer]]
          /\ GetByProxyPath(hint[c]) # {}
          /\ ProxyToContainer(c, path, referer))
         => (/\ fwd'.handler = "desktop"
             /\ fwd'.target \in {r.id : r \in GetByProxyPath(hint[c])}
             /\ routed'.status = 0
             /\ hint' = hint)]_vars

\* An asset request has just resolved through the sticky hint.
C9_Witness ==
    /\ routed.handler = "desktop"
    /\ routed.asset
    /\ routed.via = "session"
    /\ fwd.target = routed.target
    /\ RowById(routed.target).status = "running"
    /\ hint[routed.client] = RowById(routed.target).proxy_path

\* No tier of the /desktop resolver yields a running container: not the
\* segment and, for an asset request, neither the Referer's segment nor
\* the sticky hint.
DesktopMiss(path, referer, current_container) ==
    /\ GetByProxyPath(path) = {}
    /\ AssetLike[path] =>
         /\ \/ SegmentOf[referer] = ""
            \/ AssetLike[SegmentOf[referer]]
            \/ GetByProxyPath(SegmentOf[referer]) = {}
         /\ current_container = "" \/ GetByProxyPath(current_container) = {}

\* The handler answered at once, with no backend connection attempted.
AnsweredAtOnce(status) ==
    /\ routed' # NoAnswer
    /\ routed'.status = status
    /\ routed'.attempts = 0
    /\ fwd' = NoForward

\* A step that is a request no tier resolves, answered otherwise than at
\* once with the given statuses: `desktop` by the /desktop handler,
\* `container_proxy` by the /container-proxy handler.
MissAnsweredOtherwise(desktop, container_proxy) ==
    /\ routed' # NoAnswer
    /\ fwd = NoForward
    /\ \/ /\ routed'.handler = "desktop"
          /\ ~AnsweredAtOnce(desktop)
          /\ \E c \in Clients, path \in RequestPaths, referer \in Referers :
               /\ DesktopMiss(path, referer, hint[c])
               /\ ProxyToContainer(c, path, referer)
       \/ /\ routed'.handler = "container_proxy"
          /\ ~AnsweredAtOnce(container_proxy)
          /\ \E c \in Clients, path \in RequestPaths :
               /\ GetByProxyPath(path) = {}
               /\ ContainerProxy(c, path)

\* C10 as stated: a request that no tier resolves is answered 404 by
\* either proxy handler, with no backend connection and no retry.
C10_MissIs404 == [][~MissAnsweredOtherwise(404, 404)]_vars

\* C10: a request that no tier resolves is answered at once, with no
\* backend connection and no retry: 404 by the /desktop handler, the 302
\* redirect to the main domain by the /container-proxy handler.
C10_MissAnsweredAtOnce == [][~MissAnsweredOtherwise(404, 302)]_vars

\* An asset request with no sticky hint has just been answered 404.
C10_Witness ==
    /\ routed.handler = "desktop"
    /\ routed.asset
    /\ routed.status = 404
    /\ routed.attempts = 0
    /\ hint[routed.client] = ""
    /\ fwd = NoForward

\* C11: a step that changes a sticky hint is never the handling of an
\* asset request, whichever tier resolved it and however it ended; it is
\* a non-asset request that resolved to a container, and the hint
\* becomes that container's proxy_path.
C11_OnlyNonAssetWritesHint ==
    [][hint' # hint =>
         /\ ~\E c \in Clients, path \in RequestPaths, referer \in Referers :
               AssetLike[path] /\ ProxyToContainer(c, path, referer)
         /\ \E c \in Clients, path \in RequestPaths, referer \in Referers :
               /\ ~AssetLike[path]
               /\ ProxyToContainer(c, path, referer)
               /\ fwd' # NoForward
               /\ hint'[c] = RowById(fwd'.target).proxy_path]_vars

\* An asset request has just resolved through its Referer to a container
\* other than the one the sticky hint names, and the hint is still there.
C11_Witness ==
    /\ routed.handler = "desktop"
    /\ routed.asset
    /\ routed.via = "referer"
    /\ fwd.target = routed.target
    /\ hint[routed.client] # ""
    /\ hint[routed.client] # RowById(routed.target).proxy_path

\* A forwarded desktop request has just been answered.
Forwarded503 ==
    /\ routed # NoAnswer
    /\ routed.handler = "desktop"
    /\ routed.via = "backend"
    /\ routed.status = 503

C12_WitnessThird ==
    /\ routed # NoAnswer
    /\ routed.handler = "desktop"
    /\ routed.backend.how = "reset"
    /\ routed.backend.fails = 2
    /\ routed.status = 200
    /\ routed.attempts = 3

\* C13: the 503 sent for a backend that is not ready says "not running"
\* only when the engine confirmed that the instance is not running; when
\* the engine reports it running, or the inspection fails, it says
\* "starting".
C13_NotRunningOnlyIfConfirmed ==
    Forwarded503 =>
        /\ routed.message = "not_running"
             => routed.probe \in {"not_found", "exited", "dead", "created"}
        /\ routed.probe \in {"running", "inspect_failed", "no_manager"}
             => routed.message = "starting"

\* The handshake of the session was read to its end and decided on.
HandshakeDecided ==
    /\ tunnel.phase \in {"relay", "returned"}
    /\ AfterTerminator(tunnel.response) # 0
    /\ tunnel.ws_close # 1009
RelayStarted == tunnel.c2b # "none" /\ tunnel.b2c # "none"

\* C14: once the backend's handshake response is read, the relay loops
\* are started exactly when the status code of its status line is 101;
\* otherwise no loop runs and the client, if still there, is closed with
\* the protocol-error code 1002.
C14_RelayIffCode101 ==
    HandshakeDecided =>
        /\ RelayStarted <=> CodeOf[tunnel.response[1]] = "101"
        /\ (~RelayStarted /\ tunnel.client = "open") => tunnel.ws_close = 1002

\* C15: in an upgraded session what the client was given is, in order and
\* unchanged, a beginning of what the backend wrote after the header
\* terminator, nothing of it being left out, and what the backend was
\* given is a beginning of what the client sent.
C15_StreamIntact ==
    RelayStarted =>
        /\ IsPrefix(tunnel.to_client, StreamOf(tunnel.written))
        /\ IsPrefix(tunnel.to_backend, tunnel.client_sent)

\* C16: in an upgraded session, once the backend has closed its socket
\* the client is sent a close frame, whether or not it ever sends or
\* closes anything itself.
C16_BackendCloseReachesClient ==
    (tunnel.phase = "relay" /\ tunnel.eof) ~> (tunnel.ws_close # 0 \/ tunnel.client = "closed")

\* Reached: the backend closed, the client never sent or closed anything,
\* and the gevent entry point sent it the close frame.
C16_Witness ==
    /\ tunnel.entry = "gevent"
    /\ RelayStarted
    /\ tunnel.eof
    /\ tunnel.client = "open"
    /\ tunnel.client_sent = <<>>
    /\ tunnel.ws_close = 1000

\* The running rows a sweep with this threshold finds idle: last accessed
\* more than the threshold before `now`.
OlderThan(threshold, now, accessed) ==
    {r \in registry : r.status = "running" /\ accessed[r.id] + threshold < now}

\* The rows the sweep under way found idle when it made its selection.
OlderThanAtQuery ==
    {id \in RowIds : id \in sweep.stopped \cup sweep.failed \cup sweep.todo
                       \/ (sweep.row # NULL /\ id = sweep.row)}

ReplyKeys ==
    IF reply.route \notin {"start", "status", "list"} \/ ~reply.body.success THEN {}
    ELSE IF reply.route = "list"
    THEN UNION {DOMAIN reply.body.containers[i] : i \in DOMAIN reply.body.containers}
    ELSE DOMAIN reply.body.container
         \cup (IF reply.route = "status" THEN DOMAIN reply.body.status ELSE {})

\* C18: no response of the provisioning routes start, status and list
\* carries the engine's instance id or the raw host port.
C18_PublicShapeOnly ==
    ReplyKeys \cap {"container_id", "host_port"} = {}

\* C19: the lookup API names a target only to a caller with the shared
\* secret and only for a running container with a port, and then it is
\* that container's port; any other key is answered 401 without a
\* target; a path with no running container, or one without a port, is
\* answered with the null target.
C19_LookupGuarded ==
    [][(reply' # reply /\ reply'.route = "apache") =>
         LET served == {r \in registry : /\ r.status = "running"
                                         /\ r.host_port # NULL
                                         /\ r.proxy_path = Lowered[reply'.proxy_path]}
         IN IF reply'.api_key # APACHE_API_KEY
            THEN reply'.status = 401 /\ "target" \notin DOMAIN reply'.body
            ELSE /\ reply'.status = 200
                 /\ IF served = {} THEN reply'.body.target = NoTarget
                    ELSE /\ reply'.body.target.host = DOCKER_HOST_IP
                         /\ reply'.body.target.port \in {r.host_port : r \in served}]_vars

\* Reached: the lookup named the port of a running container to a caller
\* with the secret, for a path written in another case.
C19_Witness ==
    /\ reply.route = "apache"
    /\ reply.api_key = APACHE_API_KEY
    /\ reply.proxy_path = "Alice-Ubuntu-VSCode"
    /\ reply.body.target # NoTarget
    /\ \E r \in registry : r.status = "running" /\ r.host_port = reply.body.target.port

\* C20: a Create that found a row in stopped, error or creating and
\* whose engine-side removal of the old instance failed ends there: the
\* step that ends it changes no row and no instance, and the call has
\* inserted no row, holds no port and has started nothing.
C20_FailedCleanupAborts ==
    [][(last' # NoCall /\ last'.op = "create" /\ last'.outcome = "cleanup_failed") =>
         \E p \in Procs :
            /\ pc[p] = "c_cleanup_engine"
            /\ pc'[p] = "idle"
            /\ loc[p].row = last'.row
            /\ "host_port" \notin DOMAIN loc[p]
            /\ registry' = registry
            /\ engine' = engine
            /\ \E i \in engine' : i.id = loc[p].container_id]_vars

\* Reached: a Create gave up after the engine refused to remove the
\* instance of the stopped row, and row and instance are still there.
C20_Witness ==
    /\ last.op = "create"
    /\ last.outcome = "cleanup_failed"
    /\ HasRow(last.row)
    /\ RowById(last.row).status \in {"stopped", "error", "creating"}
    /\ HasInstance(RowById(last.row).container_id)

\* The outcomes of a Create that had inserted its row before it ended.
InsertedOutcomes == {"created", "stale", "exhausted", "engine_failed"}

C24_StopIdempotent ==
    [][\A p \in Procs :
         (/\ pc[p] = "s_commit"
          /\ pc'[p] = "idle"
          /\ HasRow(loc[p].row)
          /\ RowById(loc[p].row).status = "stopped")
         => /\ last'.outcome = "stopped"
            /\ registry' = registry
            /\ engine' = engine]_vars

\* C23: when a Reconcile found the engine reporting the instance of a
\* running row as exited or dead, the commit it ends with sets the row's
\* status to error.
C23_ExitedBecomesError ==
    [][\A p \in Procs :
         (/\ pc[p] = "g_commit"
          /\ pc'[p] = "idle"
          /\ loc[p].stamp
          /\ HasRow(loc[p].row)
          /\ RowById(loc[p].row).status = "running")
         => \E r \in registry' : r.id = loc[p].row /\ r.status = "error"]_vars

\* C26: a failure while removing one row does not abort the batch: when
\* a removal of stopped containers has ended, no row of its list is left
\* that it did not go through.
C26_BatchGoesOn ==
    sweep.cleanup.phase \in {"done", "aborted"} => sweep.cleanup.old_containers = {}

\* C28: when the engine failed the call of a Stop or a Remove, for a
\* reason other than the instance being absent, the row of the container
\* is marked error when the call has ended.
C28_EngineFailureMarksError ==
    (/\ last.op \in {"stop", "remove"}
     /\ last.outcome = "engine_failed"
     /\ HasRow(last.row))
    => RowById(last.row).status = "error"

\* Row id is in creating and no Create in flight owns it.
StaleCreating(id) ==
    /\ HasRow(id)
    /\ RowById(id).status = "creating"
    /\ \A p \in Procs : pc[p] = "idle" \/ "row" \notin DOMAIN loc[p] \/ loc[p].row # id

\* C22: a row left in creating by a Create that did not complete is
\* eventually given another status or removed while the periodic sweeps
\* keep running: no row stays in creating forever.
C22_StaleCreatingSwept ==
    \A id \in RowIds :
        StaleCreating(id) ~> ~(HasRow(id) /\ RowById(id).status = "creating")

\* The row says running while the engine has no running instance for it.
RunningMismatch(id) ==
    /\ HasRow(id)
    /\ RowById(id).status = "running"
    /\ ~(HasInstance(RowById(id).container_id)
         /\ InstanceById(RowById(id).container_id).state = "running")

\* The engine has removed the instance and the row is still there.
RemovedMismatch(id) ==
    /\ HasRow(id)
    /\ RowById(id).container_id # NULL
    /\ ~HasInstance(RowById(id).container_id)

\* After a Stop whose commit failed, the row does not go on saying
\* running for ever while the instance is stopped.
StopFailureHealed ==
    \A id \in RowIds :
      (last.op = "stop" /\ last.outcome = "commit_failed" /\ last.row = id /\ RunningMismatch(id))
         ~> ~RunningMismatch(id)

\* After a Remove whose delete failed, the row does not stay for ever
\* without its instance.
RemoveFailureHealed ==
    \A id \in RowIds :
      (last.op = "remove" /\ last.outcome = "commit_failed" /\ last.row = id /\ RemovedMismatch(id))
         ~> ~RemovedMismatch(id)

\* C25: a Stop or a Remove that succeeded in the engine and failed in the
\* Registry is made up for: the disagreement it leaves between engine and
\* Registry ends eventually, it is never a final state.
C25_PartialFailureRetried ==
    StopFailureHealed /\ RemoveFailureHealed

FirstYield(host, referer, current_container) ==
    IF BySubdomain(host) # {} THEN BySubdomain(host)
    ELSE IF ByReferer(referer) # {} THEN ByReferer(referer)
    ELSE BySession(current_container)

\* C29: a WebSocket request at /websockify is sent to the container of the
\* first tier, in the order subdomain, Referer, session value, that yields
\* a running container; a later tier neither replaces nor discards what
\* an earlier tier found.
C29_FirstTierWins ==
    (routed.handler \in {"websocket_root", "websockify_sock"} /\ routed.status # 400)
        => LET first == FirstYield(routed.host, routed.referer, routed.current_container)
           IN IF first = {} THEN routed.target = NULL
              ELSE routed.target \in {r.id : r \in first}

\* The same for the flask-sock handler alone.
SockFirstTierWins ==
    routed.handler = "websockify_sock"
        => LET first == FirstYield(routed.host, routed.referer, routed.current_container)
           IN IF first = {} THEN routed.target = NULL
              ELSE routed.target \in {r.id : r \in first}
SockBySubdomainOverReferer ==
    /\ routed.handler = "websockify_sock"
    /\ routed.via = "subdomain"
    /\ ByReferer(routed.referer) # {}
    /\ ByReferer(routed.referer) # BySubdomain(routed.host)

\* The statuses a failed forwarding may be answered with: 504 when the
\* last connection timed out (connecting or reading), 503 when it was
\* reset, 502 for any other request error.  The backend handler's session
\* does not tell the kinds apart in the model, so any of the three is
\* taken for it.
FailureStatuses(answer) ==
    IF answer.handler = "container_proxy" THEN {502, 503, 504}
    ELSE IF answer.attempts > answer.backend.fails THEN {502}
    ELSE IF answer.backend.how \in {"connect_timeout", "read_timeout"} THEN {504}
    ELSE IF answer.backend.how = "reset" THEN {503}
    ELSE {502}

\* C30: a forwarding that fails is answered with one status: 504 after a
\* timeout (connect or read), 503 after a connection failure, 502 after
\* any other request error.
C30_FailureStatus ==
    (routed.handler \in {"desktop", "container_proxy"} /\ routed.via = "backend"
       /\ routed.status # 200)
        => routed.status \in FailureStatuses(routed)

\* The same for the desktop handler's failures other than timeouts; and
\* the desktop handler never answers 504.
DesktopNoTimeoutStatus ==
    (/\ routed.handler = "desktop" /\ routed.via = "backend" /\ routed.status # 200
     /\ ~(/\ routed.attempts <= routed.backend.fails
          /\ routed.backend.how \in {"connect_timeout", "read_timeout"}))
        => routed.status \in FailureStatuses(routed)
DesktopNever504 == routed.handler = "desktop" => routed.status # 504

\* C31: a forwarded request whose connection to the backend times out
\* (connecting or reading) is answered 504 after that one connection: no
\* further connection is made for the same request.
C31_TimeoutNotRetried ==
    (/\ routed.handler = "desktop"
     /\ routed.via = "backend"
     /\ routed.backend.fails >= 1
     /\ routed.backend.how \in {"connect_timeout", "read_timeout"})
        => (routed.attempts = 1 /\ routed.status = 504)

\* A request whose first connection timed out has been answered with the
\* backend's response, which a later connection of the same request got.
TimeoutThenResponse ==
    /\ routed.handler = "desktop"
    /\ routed.via = "backend"
    /\ routed.backend.how \in {"connect_timeout", "read_timeout"}
    /\ routed.backend.fails >= 1
    /\ routed.attempts = routed.backend.fails + 1
    /\ routed.status = 200

\* The close codes the relay functions send: normal, protocol error,
\* handshake too large, internal error.
CloseCodes == {1000, 1002, 1009, 1011}

\* C32: when a Tunnel session is over, however it went, the backend
\* socket that was connected is closed and the client, if it is still
\* there, was sent a close frame with one of the close codes.
C32_BothSocketsClosed ==
    tunnel.phase = "returned" =>
        /\ tunnel.sock \in {"none", "closed"}
        /\ tunnel.client = "open" => tunnel.ws_close \in CloseCodes

\* The same for the sessions of the flask-sock entry point, and for the
\* sessions of the gevent entry point that got as far as relaying.
FlaskSockBothClosed ==
    (tunnel.phase = "returned" /\ tunnel.entry = "flask_sock") =>
        /\ tunnel.sock \in {"none", "closed"}
        /\ tunnel.client = "open" => tunnel.ws_close \in CloseCodes
GeventRelayedBothClosed ==
    (tunnel.phase = "returned" /\ tunnel.entry = "gevent" /\ tunnel.c2b # "none") =>
        /\ tunnel.sock = "closed"
        /\ tunnel.client = "open" => tunnel.ws_close \in CloseCodes

\* C33: every Tunnel session that relays comes to its end, with the
\* backend socket closed and the client closed or gone, whatever the
\* peers do or leave undone: the session bound ends the loops that still
\* run.
C33_SessionTerminates ==
    (tunnel.phase = "relay")
        ~> (/\ tunnel.phase = "returned"
            /\ tunnel.sock = "closed"
            /\ tunnel.ws_close # 0 \/ tunnel.client = "closed")

\* The same for the sessions of the gevent entry point.
GeventSessionTerminates ==
    (tunnel.phase = "relay" /\ tunnel.entry = "gevent")
        ~> (/\ tunnel.phase = "returned"
            /\ tunnel.sock = "closed"
            /\ tunnel.ws_close # 0 \/ tunnel.client = "closed")

\* A step in which one relay loop ends while the other one goes on.
ClientLoopEndsAlone ==
    /\ tunnel.phase = "relay"
    /\ tunnel.c2b = "running" /\ tunnel'.c2b = "ended"
    /\ tunnel.b2c = "running" /\ tunnel'.b2c = "running"
BackendLoopEndsAlone ==
    /\ tunnel.phase = "relay"
    /\ tunnel.b2c = "running" /\ tunnel'.b2c = "ended"
    /\ tunnel.c2b = "running" /\ tunnel'.c2b = "running"

\* C34: when the loop client -> backend ends alone, the backend socket is
\* shut down for writing only, so that the other loop can still read from
\* it; when the loop backend -> client ends alone, the backend socket
\* stays as it is, so that the other loop can still write to it.
C34_OtherLoopGoesOn ==
    [][/\ ClientLoopEndsAlone => tunnel'.sock = "shut_wr"
       /\ BackendLoopEndsAlone => tunnel'.sock = tunnel.sock]_vars

\* The same for the sessions of the gevent entry point.
GeventOtherLoopGoesOn ==
    [][tunnel.entry = "gevent" =>
         /\ ClientLoopEndsAlone => tunnel'.sock = "shut_wr"
         /\ BackendLoopEndsAlone => tunnel'.sock = tunnel.sock]_vars

\* In a gevent session data was given to the client after the loop
\* client -> backend had ended.
GeventDeliversAfterHalfClose ==
    /\ tunnel.entry = "gevent"
    /\ tunnel.c2b = "ended"
    /\ tunnel.b2c = "running"
    /\ tunnel.sock = "shut_wr"
    /\ tunnel.to_client # <<>>
    /\ tunnel.to_client = StreamOf(tunnel.written)

\* The handshake response read so far is within the size cap.
HandshakeWithinCap ==
    tunnel.phase = "handshake" => SizeOf(tunnel.response) <= MAX_HANDSHAKE_SIZE
GeventHandshakeWithinCap ==
    tunnel.entry = "gevent" => HandshakeWithinCap

\* C35: the handshake read phase is bounded: whatever the backend sends
\* or does not send, a session that is in the handshake phase leaves it,
\* by the size cap, by the read deadline or by the decision on a
\* complete header.
C35_HandshakeBounded ==
    (tunnel.phase = "handshake") ~> (tunnel.phase # "handshake")

\* WebSocket sessions to the container of one user, taken by any of the
\* three route functions, while the hours pass and the user loads pages.
AcceptScripts ==
    {<<"HTTP/1.1 101 Switching Protocols", Terminator>>,
     <<"HTTP/1.1 101 Switching Protocols", Terminator, "b1">>,
     <<"HTTP/1.1 403 Forbidden", Terminator>>}
NextAccept ==
    \/ \E route \in WebsocketRoutes, script \in AcceptScripts : WebsocketAccept(route, script)
    \/ Tick
    \/ \E id \in RowIds : Access(id)
    \/ BackendWrite
    \/ BackendClose
    \/ \E kind \in FrameKinds : ClientSend(kind)
    \/ ClientClose
    \/ HandshakeRead
    \/ RelayBackendToClient
    \/ RelayClientToBackend
    \/ SessionTimeout
    \/ TunnelClose
    \/ TunnelDone
SpecAccept == InitTunnel /\ [][NextAccept]_vars

\* C36: in every session whose relay loops were started, the container's
\* last_accessed was written when or after the route function took the
\* session, whichever of the three route functions it was.
C36_AccessedBeforeRelay ==
    RelayStarted => sweep.last_accessed[tunnel.target] >= tunnel.accepted
\* The same for the sessions of the gevent relay.
GeventAccessedBeforeRelay ==
    (RelayStarted /\ tunnel.entry = "gevent")
        => sweep.last_accessed[tunnel.target] >= tunnel.accepted
GeventRelayAfterAnHour ==
    RelayStarted /\ tunnel.entry = "gevent" /\ tunnel.accepted > 0

\* Row id is stopped and its retention period ends within the hours of
\* the model: it has no stopped_at, or one that the last hour is more
\* than the retention period after.
Retained(id) ==
    /\ HasRow(id)
    /\ RowById(id).status = "stopped"
    /\ RowById(id).stopped_at # NoTime => RowById(id).stopped_at < MaxTime - RETENTION_HOURS
\* The same with a stopped_at.
RetainedStamped(id) == Retained(id) /\ RowById(id).stopped_at # NoTime

\* C37: a row that became stopped, by a Stop, by a Stop that found the
\* instance absent or by Reconcile, is eventually removed by the
\* retention sweep (or started or stopped again by a request): no stopped
\* row is passed over by the sweep forever.
C37_StoppedRowRemoved ==
    \A id \in RowIds : Retained(id) ~> ~Retained(id)
\* The same for the rows that were given a stopped_at.
StampedRowRemoved ==
    \A id \in RowIds : RetainedStamped(id) ~> ~RetainedStamped(id)

\* C38: no two rows in running have the same host_port, after any
\* sequence of Create, Stop, Reconcile and Remove calls, Reconcile
\* setting a stopped row back to running included.
C38_RunningPortsDistinct ==
    \A r1, r2 \in registry :
        (/\ r1.id # r2.id
         /\ r1.status = "running"
         /\ r2.status = "running"
         /\ r1.host_port # NULL)
        => r1.host_port # r2.host_port

\* A row is bound to instance i; the Create that made i has not ended.
Bound(i) == \E r \in registry : r.container_id = i.id
CreateInFlight(i) ==
    \E p \in Procs : pc[p] \in {"c_commit", "c_failed"} /\ loc[p].row = i.id

\* C39: every engine instance that a Create started is referenced by the
\* container_id of a Registry row once that Create has ended: no instance
\* is left in the engine without a row bound to it.
C39_NoOrphanInstance ==
    \A i \in engine : ~CreateInFlight(i) => Bound(i)
\* The same for the instances the engine started,
NoOrphanStarted ==
    \A i \in engine : (i.state # "created" /\ ~CreateInFlight(i)) => Bound(i)
\* and for those that it created and could not start.
NoOrphanCreated ==
    \A i \in engine : (i.state = "created" /\ ~CreateInFlight(i)) => Bound(i)

\* A scheduler is set up, started and stopped, and its thread runs the
\* tasks it was given.
NextScheduler ==
    \/ InitApp
    \/ \E interval \in TaskIntervals : AddTask(interval)
    \/ SchedulerStart
    \/ SchedulerStop
    \/ SchedulerWake
    \/ SchedulerSleep
    \/ \E outcome \in TaskOutcomes, log \in LogOutcomes : SchedulerRun(outcome, log)
SpecScheduler == Init /\ [][NextScheduler]_vars

\* The step is the run of a due task that raised, or that returned.
TaskRaised ==
    /\ \E log \in LogOutcomes : SchedulerRun("raised", log)
    /\ last'.outcome = "raised"
TaskReturned ==
    /\ \E log \in LogOutcomes : SchedulerRun("returned", log)
    /\ last'.outcome = "returned"

\* C40: a task that raises does not end the loop of the scheduler and
\* does not keep the other tasks of the pass from running (the loop goes
\* on to the next task), and its last_run is not advanced; a task is run
\* only when it has not run before or its interval has elapsed since its
\* last_run.
C40_RaisingTaskGoesOn ==
    [][/\ TaskRaised => /\ Scheduler'.thread = "pass"
                        /\ Scheduler'.at = Scheduler.at + 1
                        /\ Scheduler'.tasks = Scheduler.tasks
       /\ TaskReturned => Due(Scheduler.tasks[Scheduler.at], Scheduler.now)]_vars
\* Its parts that do not depend on the loop going on.
LastRunKeptOnFailure ==
    [][TaskRaised => Scheduler'.tasks = Scheduler.tasks]_vars
NotRerunBeforeInterval ==
    [][TaskReturned => Due(Scheduler.tasks[Scheduler.at], Scheduler.now)]_vars
\* The thread of a scheduler that was started and not stopped is there.
RunningThreadAlive ==
    Scheduler.running => Scheduler.thread \in {"waiting", "pass"}
\* A task of a scheduler with an app has run twice.
TaskRunTwice ==
    /\ last.op = "task"
    /\ last.outcome = "returned"
    /\ Scheduler.tasks[last.row].last_run > 0

====
